---------------------------- MODULE Spec2Model ----------------------------
(***************************************************************************)
(* A model of the Bulletproofs++ weight norm linear argument (wnla.go) and *)
(* of its Fiat-Shamir transcript (KeccakFS).                               *)
(*                                                                         *)
(* The specifications share the transcript definitions:                    *)
(*   SpecFS      a transcript A on which arbitrary calls are made;         *)
(*   SpecPair    the same, and a transcript B that replays A's calls at    *)
(*               its own pace, with its own domain tag or with A's;        *)
(*   SpecNum     a transcript A on which scalars are absorbed;             *)
(*   SpecConcat  a transcript A on which absorbing calls are made of which *)
(*               several sequences write the same bytes;                   *)
(*   SpecWNLA    ProveWNLA followed by VerifyWNLA, one recursion level     *)
(*               per step, both with a fresh transcript;                   *)
(*   SpecWNLACtx the same with transcripts the caller has used before;     *)
(*   SpecWNLALive SpecWNLA with a running call taking its next step;       *)
(*   SpecShared  two calls of ProveWNLA and one of VerifyWNLA on objects   *)
(*               in memory, one public shared by all, their steps          *)
(*               interleaved;                                              *)
(*   SpecRand    SecureRandScalar and its rejection sampling loop.         *)
(*                                                                         *)
(* Abstractions of code that is outside the repository:                    *)
(*   - bn256.G1 is a cyclic group of prime order bn256.Order.  A point is  *)
(*     represented by its discrete logarithm in 0..Order-1 (0 is the       *)
(*     identity), so Add is addition and ScalarMult is multiplication      *)
(*     modulo Order.  Order is a small prime here.                         *)
(*   - Keccak-256 is an ideal hash: the digest of a byte string is the     *)
(*     term [keccak256 |-> bytes], so two digests are equal exactly when   *)
(*     the hashed byte strings are.  Where a challenge is used as a        *)
(*     number (SpecWNLA), its value is an arbitrary scalar, fixed per      *)
(*     hashed byte string (variable oracle).                               *)
(*   - sha256 in the rejection sampling is an arbitrary candidate per      *)
(*     attempt, and rand.Read an arbitrary buffer or an error.             *)
(*   - In SpecShared, G1.Marshal normalises the coordinates of its         *)
(*     receiver in place (the object's affine flag) and leaves the group   *)
(*     element unchanged; Add, ScalarMult and Set write their receiver     *)
(*     only.                                                               *)
(***************************************************************************)
EXTENDS Integers, Sequences, FiniteSets, TLC

VARIABLES
    \* SpecFS, SpecPair: the transcripts
    script,     \* the calls made on transcript A, in order
    fsA,        \* transcript A (a KeccakFS)
    chalA,      \* the challenges A's GetChallenge calls returned, in order
    preA,       \* A as it was before its last call
    retA,       \* the error A's last call returned ("nil" for none)
    fsB,        \* transcript B, which replays the script
    posB,       \* how many calls of the script B has replayed
    chalB,      \* the challenges B's GetChallenge calls returned
    tagB        \* the tag B uses in place of A's when the script starts
                \* with AddDomain (<<>>: B uses A's tag)

VARIABLES
    \* SpecWNLA: the caller's values
    pub,        \* the WeightNormLinearPublic passed to ProveWNLA
    wl, wn,     \* the witness vectors l and n
    com,        \* the commitment passed to ProveWNLA
    ctx,        \* the transcript passed to ProveWNLA, as the caller left it
    vctx,       \* the transcript passed to VerifyWNLA, as the caller left it
    oracle,     \* the value of each challenge squeezed so far
    \* SpecWNLA: proveWNLARecursive
    ppc,        \* "call", "return", "done" or "failed"
    pPub, pCom, pl, pn,  \* the arguments of the current recursive call
    pfs,        \* the prover's transcript
    pstack,     \* the (X, R) of the calls waiting for their recursive call
    proof,      \* the proof returned by the innermost call that returned
    prounds,    \* per round: what the prover absorbed and squeezed
    \* SpecWNLA: VerifyWNLA
    vpc,        \* "idle", "call" or "done"
    vPub, vProof, vCom,  \* the arguments of the current recursive call
    vfs,        \* the verifier's transcript
    vres,       \* the error VerifyWNLA returned ("nil" for none)
    vin,        \* the proof and commitment VerifyWNLA was called with
    vrounds,    \* per round: what the verifier absorbed and squeezed
    \* SpecShared: the calls on objects in memory
    heap,       \* per owner, the objects it made, in the order it made them
    calls       \* per call: its position, arguments, locals and result

VARIABLES
    \* SpecRand: one call of SecureRandScalar
    rs          \* its position, entropy, loop counter, candidate and result

fsVars == <<script, fsA, chalA, preA, retA, fsB, posB, chalB, tagB>>

callerVars == <<pub, wl, wn, com, ctx, vctx>>
proverVars == <<ppc, pPub, pCom, pl, pn, pfs, pstack, proof, prounds>>
verifierVars == <<vpc, vPub, vProof, vCom, vfs, vres, vin, vrounds>>
sharedVars == <<heap, calls>>
wnlaVars == <<callerVars, oracle, proverVars, verifierVars, sharedVars>>

randVars == <<rs>>

vars == <<fsVars, wnlaVars, randVars>>

\* The group order (bn256.Order), scaled down to a small prime.
Order == 7

\* Number of calls made on transcript A in SpecFS.
MaxOps == 4

\* Number of calls made on transcript A in SpecPair.
MaxPairOps == 3

\* Number of calls made on transcript A in SpecNum.
MaxNumOps == 2

\* Number of calls made on transcript A in SpecConcat.
MaxConcatOps == 2

---------------------------------------------------------------------------
(* Bytes and encodings *)

\* make([]byte, k): k zero bytes.
Zeros(k) == [i \in 1 .. k |-> 0]

Abs(v) == IF v < 0 THEN 0 - v ELSE v

\* big.Int.Bytes(): the big-endian bytes of |v|, without leading zeros.
RECURSIVE BigBytes(_)
BigBytes(v) == IF v = 0 THEN <<>> ELSE Append(BigBytes(v \div 256), v % 256)

\* bint(v): the big.Int holding v.
bint(v) == v

\* scalarTo32Byte without the padding of short values.
scalarTo32Byte_arr_NoPad(arr) ==
    IF Len(arr) >= 32 THEN SubSeq(arr, 1, 32)
    ELSE arr

\* scalarTo32Byte, lines 97-102: what it does with arr, the bytes of s.
scalarTo32Byte_arr(arr) ==
    IF Len(arr) >= 32 THEN SubSeq(arr, 1, 32)
    ELSE Zeros(32 - Len(arr)) \o arr

scalarTo32Byte(s) == scalarTo32Byte_arr(BigBytes(Abs(s)))

\* bn256.G1.Marshal(): 64 bytes, the two affine coordinates; the identity
\* marshals to 64 zero bytes.  A point other than the identity is given
\* coordinates derived from its discrete logarithm (injective).
Marshal(p) ==
    IF p = 0 THEN Zeros(64)
    ELSE scalarTo32Byte(p) \o scalarTo32Byte(Order - p)

\* Keccak256 of a byte string, as an ideal hash term.
Keccak256(data) == [keccak256 |-> data]

\* new(big.Int).Mod(new(big.Int).SetBytes(digest), bn256.Order)
ChallengeOf(digest) == [modOrder |-> digest]

---------------------------------------------------------------------------
(* KeccakFS *)

NoErr == "nil"

NewKeccakFS == [state |-> <<>>, counter |-> 0]

\* KeccakState.Write: append to the sponge input.
Write(k, data) == [k EXCEPT !.state = k.state \o data]

\* AddDomain that writes the separator and not the tag.
AddDomain_SeparatorOnly(k, domain) ==
    IF domain = <<>>
    THEN [k |-> k, err |-> "domain cannot be empty"]
    ELSE [k |-> Write(k, <<0>>), err |-> NoErr]

AddDomain(k, domain) ==
    IF domain = <<>>
    THEN [k |-> k, err |-> "domain cannot be empty"]
    ELSE [k |-> Write(Write(k, domain), <<0>>), err |-> NoErr]

\* AddPoint that rejects the identity as it rejects nil.
AddPoint_RejectIdentity(k, isnil, p) ==
    IF isnil \/ p = 0
    THEN [k |-> k, err |-> "point cannot be nil"]
    ELSE [k |-> Write(k, Marshal(p)), err |-> NoErr]

AddPoint(k, isnil, p) ==
    IF isnil
    THEN [k |-> k, err |-> "point cannot be nil"]
    ELSE [k |-> Write(k, Marshal(p)), err |-> NoErr]

AddNumber(k, isnil, v) ==
    IF isnil
    THEN [k |-> k, err |-> "number cannot be nil"]
    ELSE [k |-> Write(k, scalarTo32Byte(v)), err |-> NoErr]

\* AddBytes that writes the length of the data before the data.
AddBytes_LengthPrefix(k, isnil, data) ==
    IF isnil
    THEN [k |-> k, err |-> "data cannot be nil"]
    ELSE [k |-> Write(Write(k, <<Len(data)>>), data), err |-> NoErr]

\* AddBytes that tests len(data) == 0 where the code tests data == nil.
AddBytes_RejectEmpty(k, isnil, data) ==
    IF isnil \/ data = <<>>
    THEN [k |-> k, err |-> "data cannot be nil"]
    ELSE [k |-> Write(k, data), err |-> NoErr]

AddBytes(k, isnil, data) ==
    IF isnil
    THEN [k |-> k, err |-> "data cannot be nil"]
    ELSE [k |-> Write(k, data), err |-> NoErr]

\* GetChallenge with the counter a package-level variable shared by all
\* transcripts (here: transcript A's) instead of a field of the receiver.
GetChallenge_SharedCounter(k) ==
    LET k1 == [k EXCEPT !.counter = fsA.counter + 1]
        k2 == AddNumber(k1, FALSE, bint(k1.counter)).k
    IN  [k |-> k2, c |-> ChallengeOf(Keccak256(k2.state))]

\* GetChallenge that reinitializes the sponge after squeezing.
GetChallenge_Reset(k) ==
    LET k1 == [k EXCEPT !.counter = k.counter + 1]
        k2 == AddNumber(k1, FALSE, bint(k1.counter)).k
    IN  [k |-> [k2 EXCEPT !.state = <<>>],
         c |-> ChallengeOf(Keccak256(k2.state))]

\* GetChallenge that does not absorb the counter.
GetChallenge_NoAbsorb(k) ==
    LET k1 == [k EXCEPT !.counter = k.counter + 1]
    IN  [k |-> k1, c |-> ChallengeOf(Keccak256(k1.state))]

GetChallenge(k) ==
    LET k1 == [k EXCEPT !.counter = k.counter + 1]
        k2 == AddNumber(k1, FALSE, bint(k1.counter)).k
    IN  [k |-> k2, c |-> ChallengeOf(Keccak256(k2.state))]

---------------------------------------------------------------------------
(* Scalars, points and vectors (the helpers of wnla.go) *)

Scalars == 0 .. (Order - 1)

add(a, b) == (a + b) % Order
sub(a, b) == (a - b) % Order
mul(a, b) == (a * b) % Order

\* inv(a), for a # 0 modulo Order.
inv(a) == CHOOSE x \in Scalars : (a * x) % Order = 1

RECURSIVE pow(_, _)
pow(x, e) == IF e = 0 THEN 1 ELSE mul(x, pow(x, e - 1))

\* The sum of f[1..k] modulo Order.
RECURSIVE SumTo(_, _)
SumTo(f, k) == IF k = 0 THEN 0 ELSE add(SumTo(f, k - 1), f[k])

\* bn256.G1: Add and ScalarMult on discrete logarithms.
PointAdd(a, b) == (a + b) % Order
ScalarMult(a, k) == (a * (k % Order)) % Order

\* A nil *bn256.G1.
IsNilPoint(a) == a < 0

vectorAdd(a, b) == [i \in 1 .. Len(a) |-> add(a[i], b[i])]

vectorMulOnScalar(a, c) == [i \in 1 .. Len(a) |-> mul(a[i], c)]

\* <a, b>
vectorMul(a, b) == SumTo([i \in 1 .. Len(a) |-> mul(a[i], b[i])], Len(a))

\* <a, b>_mu: the i-th product (from 0) is weighted by mu^(i+1).
weightVectorMul(a, b, mu) ==
    SumTo([i \in 1 .. Len(a) |-> mul(mul(a[i], b[i]), pow(mu, i))], Len(a))

vectorPointScalarMul(g, a) ==
    SumTo([i \in 1 .. Len(g) |-> ScalarMult(g[i], a[i])], Len(g))

vectorPointsAdd(a, b) == [i \in 1 .. Len(a) |-> PointAdd(a[i], b[i])]

vectorPointMulOnScalar(g, c) == [i \in 1 .. Len(g) |-> ScalarMult(g[i], c)]

\* The halves with the loop ending one element early.
reduceVector_StopEarly(v) ==
    [res0 |-> [i \in 1 .. (Len(v) \div 2) |-> v[2 * i - 1]],
     res1 |-> [i \in 1 .. ((Len(v) - 1) \div 2) |-> v[2 * i]]]

\* The elements at the even indices (from 0) and those at the odd ones.
reduceVector(v) ==
    [res0 |-> [i \in 1 .. ((Len(v) + 1) \div 2) |-> v[2 * i - 1]],
     res1 |-> [i \in 1 .. (Len(v) \div 2) |-> v[2 * i]]]

reducePoints(v) ==
    [res0 |-> [i \in 1 .. ((Len(v) + 1) \div 2) |-> v[2 * i - 1]],
     res1 |-> [i \in 1 .. (Len(v) \div 2) |-> v[2 * i]]]

---------------------------------------------------------------------------
(* wnla.go *)

WeightNormLinearPublic(G, GVec, HVec, C, Ro, Mu) ==
    [G |-> G, GVec |-> GVec, HVec |-> HVec, C |-> C, Ro |-> Ro, Mu |-> Mu]

WeightNormLinearArgumentProof(R, X, L, N) ==
    [R |-> R, X |-> X, L |-> L, N |-> N]

CommitWNLA(p, l, n) ==
    LET v_ == add(vectorMul(p.C, l), weightVectorMul(n, n, p.Mu))
    IN  PointAdd(PointAdd(ScalarMult(p.G, v_),
                          vectorPointScalarMul(p.HVec, l)),
                 vectorPointScalarMul(p.GVec, n))

\* proveWNLARecursive, lines 124-150: the points X and R of a round.
proveWNLARecursive_XR(public, l, n) ==
    LET roinv == inv(public.Ro)
        c  == reduceVector(public.C)
        lr == reduceVector(l)
        nr == reduceVector(n)
        G  == reducePoints(public.GVec)
        H  == reducePoints(public.HVec)
        mu2 == mul(public.Mu, public.Mu)
        vx == add(mul(weightVectorMul(nr.res0, nr.res1, mu2), mul(bint(2), roinv)),
                  add(vectorMul(c.res0, lr.res1), vectorMul(c.res1, lr.res0)))
        vr == add(weightVectorMul(nr.res1, nr.res1, mu2), vectorMul(c.res1, lr.res1))
        X1 == ScalarMult(public.G, vx)
        X2 == PointAdd(X1, vectorPointScalarMul(H.res0, lr.res1))
        X3 == PointAdd(X2, vectorPointScalarMul(H.res1, lr.res0))
        X4 == PointAdd(X3, vectorPointScalarMul(G.res0, vectorMulOnScalar(nr.res1, public.Ro)))
        X5 == PointAdd(X4, vectorPointScalarMul(G.res1, vectorMulOnScalar(nr.res0, roinv)))
        R1 == ScalarMult(public.G, vr)
        R2 == PointAdd(R1, vectorPointScalarMul(H.res1, lr.res1))
        R3 == PointAdd(R2, vectorPointScalarMul(G.res1, nr.res1))
    IN  [X |-> X5, R |-> R3]

\* The absorptions made on a new transcript instead of the caller's.
proveWNLARecursive_Transcript_Fresh(fs, public, Com, X, R) ==
    LET k1 == AddPoint(NewKeccakFS, IsNilPoint(Com), Com).k
        k2 == AddPoint(k1, IsNilPoint(X), X).k
        k3 == AddPoint(k2, IsNilPoint(R), R).k
        k4 == AddNumber(k3, FALSE, bint(Len(public.HVec))).k
        k5 == AddNumber(k4, FALSE, bint(Len(public.GVec))).k
    IN  GetChallenge(k5)

\* proveWNLARecursive, lines 153-160: the five absorptions, whose errors are
\* dropped, and the squeeze.
proveWNLARecursive_Transcript(fs, public, Com, X, R) ==
    LET k1 == AddPoint(fs, IsNilPoint(Com), Com).k
        k2 == AddPoint(k1, IsNilPoint(X), X).k
        k3 == AddPoint(k2, IsNilPoint(R), R).k
        k4 == AddNumber(k3, FALSE, bint(Len(public.HVec))).k
        k5 == AddNumber(k4, FALSE, bint(Len(public.GVec))).k
    IN  GetChallenge(k5)

\* The reduction with l and n combined whole instead of by halves.
proveWNLARecursive_Reduce_Unfolded(public, l, n, y) ==
    LET roinv == inv(public.Ro)
        c  == reduceVector(public.C)
        G  == reducePoints(public.GVec)
        H  == reducePoints(public.HVec)
        mu2 == mul(public.Mu, public.Mu)
        H_ == vectorPointsAdd(H.res0, vectorPointMulOnScalar(H.res1, y))
        G_ == vectorPointsAdd(vectorPointMulOnScalar(G.res0, public.Ro),
                              vectorPointMulOnScalar(G.res1, y))
        c_ == vectorAdd(c.res0, vectorMulOnScalar(c.res1, y))
        l_ == vectorAdd(l, vectorMulOnScalar(l, y))
        n_ == vectorAdd(vectorMulOnScalar(n, roinv), vectorMulOnScalar(n, y))
        public_ == WeightNormLinearPublic(public.G, G_, H_, c_, public.Mu, mu2)
    IN  [public_ |-> public_, l_ |-> l_, n_ |-> n_,
         commitment |-> 0]

\* The reduction with Ro kept instead of replaced by Mu.
proveWNLARecursive_Reduce_KeepRo(public, l, n, y) ==
    LET roinv == inv(public.Ro)
        c  == reduceVector(public.C)
        lr == reduceVector(l)
        nr == reduceVector(n)
        G  == reducePoints(public.GVec)
        H  == reducePoints(public.HVec)
        mu2 == mul(public.Mu, public.Mu)
        H_ == vectorPointsAdd(H.res0, vectorPointMulOnScalar(H.res1, y))
        G_ == vectorPointsAdd(vectorPointMulOnScalar(G.res0, public.Ro),
                              vectorPointMulOnScalar(G.res1, y))
        c_ == vectorAdd(c.res0, vectorMulOnScalar(c.res1, y))
        l_ == vectorAdd(lr.res0, vectorMulOnScalar(lr.res1, y))
        n_ == vectorAdd(vectorMulOnScalar(nr.res0, roinv), vectorMulOnScalar(nr.res1, y))
        public_ == WeightNormLinearPublic(public.G, G_, H_, c_, public.Ro, mu2)
    IN  [public_ |-> public_, l_ |-> l_, n_ |-> n_,
         commitment |-> CommitWNLA(public_, l_, n_)]

\* The reduction with n0 not divided by Ro.
proveWNLARecursive_Reduce_NoRoInv(public, l, n, y) ==
    LET c  == reduceVector(public.C)
        lr == reduceVector(l)
        nr == reduceVector(n)
        G  == reducePoints(public.GVec)
        H  == reducePoints(public.HVec)
        mu2 == mul(public.Mu, public.Mu)
        H_ == vectorPointsAdd(H.res0, vectorPointMulOnScalar(H.res1, y))
        G_ == vectorPointsAdd(vectorPointMulOnScalar(G.res0, public.Ro),
                              vectorPointMulOnScalar(G.res1, y))
        c_ == vectorAdd(c.res0, vectorMulOnScalar(c.res1, y))
        l_ == vectorAdd(lr.res0, vectorMulOnScalar(lr.res1, y))
        n_ == vectorAdd(nr.res0, vectorMulOnScalar(nr.res1, y))
        public_ == WeightNormLinearPublic(public.G, G_, H_, c_, public.Mu, mu2)
    IN  [public_ |-> public_, l_ |-> l_, n_ |-> n_,
         commitment |-> CommitWNLA(public_, l_, n_)]

\* proveWNLARecursive, lines 162-181: the reduced public, the reduced
\* witness and the commitment recomputed from them.
proveWNLARecursive_Reduce(public, l, n, y) ==
    LET roinv == inv(public.Ro)
        c  == reduceVector(public.C)
        lr == reduceVector(l)
        nr == reduceVector(n)
        G  == reducePoints(public.GVec)
        H  == reducePoints(public.HVec)
        mu2 == mul(public.Mu, public.Mu)
        H_ == vectorPointsAdd(H.res0, vectorPointMulOnScalar(H.res1, y))
        G_ == vectorPointsAdd(vectorPointMulOnScalar(G.res0, public.Ro),
                              vectorPointMulOnScalar(G.res1, y))
        c_ == vectorAdd(c.res0, vectorMulOnScalar(c.res1, y))
        l_ == vectorAdd(lr.res0, vectorMulOnScalar(lr.res1, y))
        n_ == vectorAdd(vectorMulOnScalar(nr.res0, roinv), vectorMulOnScalar(nr.res1, y))
        public_ == WeightNormLinearPublic(public.G, G_, H_, c_, public.Mu, mu2)
    IN  [public_ |-> public_, l_ |-> l_, n_ |-> n_,
         commitment |-> CommitWNLA(public_, l_, n_)]

\* The base case with the comparison inverted.
VerifyWNLA_Base_Inverted(public, prf, Com) ==
    IF Marshal(CommitWNLA(public, prf.L, prf.N)) = Marshal(Com)
    THEN "failed to verify proof: final commitment mismatch"
    ELSE NoErr

\* VerifyWNLA, lines 33-45: the base case.
VerifyWNLA_Base(public, prf, Com) ==
    IF Marshal(CommitWNLA(public, prf.L, prf.N)) # Marshal(Com)
    THEN "failed to verify proof: final commitment mismatch"
    ELSE NoErr

\* The absorptions with R absorbed before X.
VerifyWNLA_Transcript_RFirst(fs, public, prf, Com) ==
    LET r1 == AddPoint(fs, IsNilPoint(Com), Com)
        r2 == AddPoint(r1.k, IsNilPoint(prf.R[1]), prf.R[1])
        r3 == AddPoint(r2.k, IsNilPoint(prf.X[1]), prf.X[1])
        r4 == AddNumber(r3.k, FALSE, bint(Len(public.HVec)))
        r5 == AddNumber(r4.k, FALSE, bint(Len(public.GVec)))
        g  == GetChallenge(r5.k)
    IN  [k |-> g.k, c |-> g.c, err |-> NoErr]

\* VerifyWNLA, lines 48-65: the five absorptions, the first error ending
\* the call, and the squeeze.
VerifyWNLA_Transcript(fs, public, prf, Com) ==
    LET r1 == AddPoint(fs, IsNilPoint(Com), Com)
        r2 == AddPoint(r1.k, IsNilPoint(prf.X[1]), prf.X[1])
        r3 == AddPoint(r2.k, IsNilPoint(prf.R[1]), prf.R[1])
        r4 == AddNumber(r3.k, FALSE, bint(Len(public.HVec)))
        r5 == AddNumber(r4.k, FALSE, bint(Len(public.GVec)))
        g  == GetChallenge(r5.k)
        none == ChallengeOf(Keccak256(<<>>))
    IN  CASE r1.err # NoErr ->
               [k |-> r1.k, c |-> none, err |-> "failed to add commitment to transcript"]
          [] r1.err = NoErr /\ r2.err # NoErr ->
               [k |-> r2.k, c |-> none, err |-> "failed to add proof X to transcript"]
          [] r1.err = NoErr /\ r2.err = NoErr /\ r3.err # NoErr ->
               [k |-> r3.k, c |-> none, err |-> "failed to add proof R to transcript"]
          [] r1.err = NoErr /\ r2.err = NoErr /\ r3.err = NoErr /\ r4.err # NoErr ->
               [k |-> r4.k, c |-> none, err |-> "failed to add HVec length to transcript"]
          [] r1.err = NoErr /\ r2.err = NoErr /\ r3.err = NoErr /\ r4.err = NoErr
             /\ r5.err # NoErr ->
               [k |-> r5.k, c |-> none, err |-> "failed to add GVec length to transcript"]
          [] OTHER ->
               [k |-> g.k, c |-> g.c, err |-> NoErr]

\* The recursive call with Com' = Com + X*y + R*y^2.
VerifyWNLA_Reduce_YSquared(public, prf, Com, y) ==
    LET c  == reduceVector(public.C)
        G  == reducePoints(public.GVec)
        H  == reducePoints(public.HVec)
        H_ == vectorPointsAdd(H.res0, vectorPointMulOnScalar(H.res1, y))
        G_ == vectorPointsAdd(vectorPointMulOnScalar(G.res0, public.Ro),
                              vectorPointMulOnScalar(G.res1, y))
        c_ == vectorAdd(c.res0, vectorMulOnScalar(c.res1, y))
        Com1 == PointAdd(Com, ScalarMult(prf.X[1], y))
        Com_ == PointAdd(Com1, ScalarMult(prf.R[1], mul(y, y)))
    IN  [public |-> WeightNormLinearPublic(public.G, G_, H_, c_, public.Mu,
                                           mul(public.Mu, public.Mu)),
         proof  |-> WeightNormLinearArgumentProof(Tail(prf.R), Tail(prf.X),
                                                  prf.L, prf.N),
         Com    |-> Com_]

\* The reduction with the whole proof passed on to the recursive call.
VerifyWNLA_Reduce_KeepProof(public, prf, Com, y) ==
    LET c  == reduceVector(public.C)
        G  == reducePoints(public.GVec)
        H  == reducePoints(public.HVec)
        H_ == vectorPointsAdd(H.res0, vectorPointMulOnScalar(H.res1, y))
        G_ == vectorPointsAdd(vectorPointMulOnScalar(G.res0, public.Ro),
                              vectorPointMulOnScalar(G.res1, y))
        c_ == vectorAdd(c.res0, vectorMulOnScalar(c.res1, y))
        Com1 == PointAdd(Com, ScalarMult(prf.X[1], y))
        Com_ == PointAdd(Com1, ScalarMult(prf.R[1], sub(mul(y, y), bint(1))))
    IN  [public |-> WeightNormLinearPublic(public.G, G_, H_, c_, public.Mu,
                                           mul(public.Mu, public.Mu)),
         proof  |-> WeightNormLinearArgumentProof(prf.R, prf.X, prf.L, prf.N),
         Com    |-> Com_]

\* VerifyWNLA, lines 67-100: the arguments of the recursive call.
VerifyWNLA_Reduce(public, prf, Com, y) ==
    LET c  == reduceVector(public.C)
        G  == reducePoints(public.GVec)
        H  == reducePoints(public.HVec)
        H_ == vectorPointsAdd(H.res0, vectorPointMulOnScalar(H.res1, y))
        G_ == vectorPointsAdd(vectorPointMulOnScalar(G.res0, public.Ro),
                              vectorPointMulOnScalar(G.res1, y))
        c_ == vectorAdd(c.res0, vectorMulOnScalar(c.res1, y))
        Com1 == PointAdd(Com, ScalarMult(prf.X[1], y))
        Com_ == PointAdd(Com1, ScalarMult(prf.R[1], sub(mul(y, y), bint(1))))
    IN  [public |-> WeightNormLinearPublic(public.G, G_, H_, c_, public.Mu,
                                           mul(public.Mu, public.Mu)),
         proof  |-> WeightNormLinearArgumentProof(Tail(prf.R), Tail(prf.X),
                                                  prf.L, prf.N),
         Com    |-> Com_]

---------------------------------------------------------------------------
(* SpecFS, SpecPair: calls on the transcript *)

DOMAIN_CIRCUIT == <<69,77,90,65,45,66,80,43,43,45,67,105,114,99,117,105,116,45,118,49>>
DOMAIN_RANGE   == <<69,77,90,65,45,66,80,43,43,45,82,97,110,103,101,45,118,49>>
DOMAIN_WNLA    == <<69,77,90,65,45,66,80,43,43,45,87,78,76,65,45,118,49>>

\* The arguments the calls are made with.
TagInputs    == {<<>>, <<65>>, DOMAIN_CIRCUIT, DOMAIN_RANGE}
BytesInputs  == {<<>>, <<65, 0>>}
PointInputs  == {0, 3}
NumberInputs == {1, 2, 3}

\* A call: its method and its arguments (the fields a method does not
\* take are left at a default).
Call(op, isnil, num, data, pt) ==
    [op |-> op, isnil |-> isnil, num |-> num, data |-> data, pt |-> pt]

\* The absorbing call e on transcript k.
Absorb(k, e) ==
    CASE e.op = "AddDomain" -> AddDomain(k, e.data)
      [] e.op = "AddBytes"  -> AddBytes(k, e.isnil, e.data)
      [] e.op = "AddPoint"  -> AddPoint(k, e.isnil, e.pt)
      [] e.op = "AddNumber" -> AddNumber(k, e.isnil, e.num)

\* No call of SecureRandScalar is made.
RandIdle == rs = <<>>

\* The WNLA variables in the specifications of the transcript alone.
WNLAIdle ==
    /\ pub = <<>> /\ wl = <<>> /\ wn = <<>> /\ com = 0
    /\ ctx = NewKeccakFS /\ vctx = NewKeccakFS
    /\ oracle = <<>>
    /\ ppc = "done" /\ pPub = <<>> /\ pCom = 0 /\ pl = <<>> /\ pn = <<>>
    /\ pfs = NewKeccakFS /\ pstack = <<>> /\ proof = <<>> /\ prounds = <<>>
    /\ vpc = "done" /\ vPub = <<>> /\ vProof = <<>> /\ vCom = 0
    /\ vfs = NewKeccakFS /\ vres = NoErr /\ vin = <<>> /\ vrounds = <<>>
    /\ heap = <<>> /\ calls = <<>>

InitFS ==
    /\ script = <<>>
    /\ fsA = NewKeccakFS
    /\ chalA = <<>>
    /\ preA = NewKeccakFS
    /\ retA = NoErr
    /\ fsB = NewKeccakFS
    /\ posB = 0
    /\ chalB = <<>>
    /\ tagB = <<>>
    /\ WNLAIdle
    /\ RandIdle

InitPair ==
    /\ script = <<>>
    /\ fsA = NewKeccakFS
    /\ chalA = <<>>
    /\ preA = NewKeccakFS
    /\ retA = NoErr
    /\ fsB = NewKeccakFS
    /\ posB = 0
    /\ chalB = <<>>
    /\ tagB \in TagInputs
    /\ WNLAIdle
    /\ RandIdle

\* Transcript A absorbs: the call e, with result r.
CallA(limit, e, r) ==
    /\ Len(script) < limit
    /\ script' = Append(script, e)
    /\ preA' = fsA
    /\ fsA' = r.k
    /\ retA' = r.err
    /\ UNCHANGED <<chalA, fsB, posB, chalB, tagB, wnlaVars, randVars>>

DoAddDomain(limit) ==
    \E tag \in TagInputs :
        CallA(limit, Call("AddDomain", FALSE, 0, tag, 0), AddDomain(fsA, tag))

DoAddBytes(limit) ==
    \E isnil \in BOOLEAN : \E data \in (IF isnil THEN {<<>>} ELSE BytesInputs) :
        CallA(limit, Call("AddBytes", isnil, 0, data, 0), AddBytes(fsA, isnil, data))

DoAddPoint(limit) ==
    \E isnil \in BOOLEAN : \E p \in (IF isnil THEN {0} ELSE PointInputs) :
        CallA(limit, Call("AddPoint", isnil, 0, <<>>, p), AddPoint(fsA, isnil, p))

DoAddNumber(limit) ==
    \E isnil \in BOOLEAN : \E v \in (IF isnil THEN {0} ELSE NumberInputs) :
        CallA(limit, Call("AddNumber", isnil, v, <<>>, 0), AddNumber(fsA, isnil, v))

\* Scalars below bn256.Order, of one to four bytes.
ScalarInputs ==
    {0, 1, 6, 255, 256, 257, 65535, 65536, 16711680, 16777216, 16909060, 2147483647}

\* AddNumber of a scalar.
DoAddScalar(limit) ==
    \E v \in ScalarInputs :
        CallA(limit, Call("AddNumber", FALSE, v, <<>>, 0), AddNumber(fsA, FALSE, v))

\* Absorbing calls of which several sequences write the same bytes.
ConcatCalls ==
    {Call("AddBytes", FALSE, 0, <<65>>, 0),
     Call("AddBytes", FALSE, 0, <<0>>, 0),
     Call("AddBytes", FALSE, 0, <<65, 0>>, 0),
     Call("AddBytes", FALSE, 0, <<>>, 0),
     Call("AddDomain", FALSE, 0, <<65>>, 0),
     Call("AddNumber", FALSE, 1, <<>>, 0),
     Call("AddNumber", FALSE, 0, <<>>, 0),
     Call("AddBytes", FALSE, 0, Zeros(31) \o <<1>>, 0),
     Call("AddPoint", FALSE, 0, <<>>, 0),
     Call("AddBytes", FALSE, 0, Zeros(64), 0)}

\* One of the absorbing calls above.
DoAbsorb(limit) ==
    \E e \in ConcatCalls : CallA(limit, e, Absorb(fsA, e))

DoGetChallenge(limit) ==
    /\ Len(script) < limit
    /\ LET r == GetChallenge(fsA)
       IN  /\ fsA' = r.k
           /\ chalA' = Append(chalA, r.c)
    /\ script' = Append(script, Call("GetChallenge", FALSE, 0, <<>>, 0))
    /\ preA' = fsA
    /\ retA' = NoErr
    /\ UNCHANGED <<fsB, posB, chalB, tagB, wnlaVars, randVars>>

\* Whether B is given another tag than A in the script's first call.
Retagged ==
    /\ tagB # <<>>
    /\ Len(script) >= 1
    /\ script[1].op = "AddDomain"

\* The i-th call B makes: the script's, with B's own tag in a leading
\* AddDomain.
CallB(i) ==
    IF i = 1 /\ Retagged THEN [script[1] EXCEPT !.data = tagB] ELSE script[i]

\* Transcript B makes its next call.
Replay ==
    /\ posB < Len(script)
    /\ LET e == CallB(posB + 1)
       IN  IF e.op = "GetChallenge"
           THEN LET r == GetChallenge(fsB)
                IN  /\ fsB' = r.k
                    /\ chalB' = Append(chalB, r.c)
           ELSE /\ fsB' = Absorb(fsB, e).k
                /\ chalB' = chalB
    /\ posB' = posB + 1
    /\ UNCHANGED <<script, fsA, chalA, preA, retA, tagB, wnlaVars, randVars>>

---------------------------------------------------------------------------
(* SpecWNLA: ProveWNLA, then VerifyWNLA *)

\* The vector s, s+t, s+2t, ... of the given length.
GenVec(len, s, t) == [i \in 1 .. len |-> (s + (i - 1) * t) % Order]

\* The inputs: (|HVec|, |GVec|), (Mu, Ro), G, and the seeds (s, t) of the
\* vectors C, l and n.  The instances that take two rounds are fewer.
ShapeInputs == {<<2, 2>>, <<3, 2>>, <<4, 2>>, <<2, 4>>}
MuRoInputs  == {<<1, 1>>, <<4, 2>>, <<2, 3>>, <<2, 4>>, <<3, 2>>, <<2, 1>>, <<0, 1>>}
GInputs     == {3}
CInputs     == {<<0, 0>>, <<1, 2>>}
LInputs     == {<<0, 0>>, <<1, 1>>, <<3, 2>>}
NInputs     == {<<0, 0>>, <<1, 0>>, <<2, 1>>}

InstanceInputs ==
    (ShapeInputs \X MuRoInputs \X GInputs \X CInputs \X LInputs \X NInputs)
    \cup ({<<8, 4>>} \X MuRoInputs \X GInputs \X {<<1, 2>>} \X {<<3, 2>>} \X {<<2, 1>>})

\* The transcript variables in the specification of the argument.
FSIdle ==
    /\ script = <<>> /\ fsA = NewKeccakFS /\ chalA = <<>>
    /\ preA = NewKeccakFS /\ retA = NoErr
    /\ fsB = NewKeccakFS /\ posB = 0 /\ chalB = <<>> /\ tagB = <<>>

NoProof == WeightNormLinearArgumentProof(<<>>, <<>>, <<>>, <<>>)

\* The caller builds one of the given instances and its commitment.
CallerBuilds(instances) ==
    /\ \E inst \in instances :
        LET sh == inst[1]  mr == inst[2]  g == inst[3]
            cs == inst[4]  ls == inst[5]  ns == inst[6]
        IN
          /\ pub = WeightNormLinearPublic(g, GenVec(sh[2], 2, 3), GenVec(sh[1], 1, 1),
                                          GenVec(sh[1], cs[1], cs[2]), mr[2], mr[1])
          /\ wl = GenVec(sh[1], ls[1], ls[2])
          /\ wn = GenVec(sh[2], ns[1], ns[2])
    /\ com = CommitWNLA(pub, wl, wn)

\* The caller builds one of the given instances and calls ProveWNLA; the
\* prover's and the verifier's transcripts are a pair of the given ones.
WNLAStart(instances, transcripts) ==
    /\ FSIdle
    /\ RandIdle
    /\ \E t \in transcripts : ctx = t[1] /\ vctx = t[2]
    /\ CallerBuilds(instances)
    /\ oracle = <<>>
    /\ ppc = "call" /\ pPub = pub /\ pCom = com /\ pl = wl /\ pn = wn
    /\ pfs = ctx /\ pstack = <<>> /\ proof = NoProof /\ prounds = <<>>
    /\ vpc = "idle" /\ vPub = pub /\ vProof = NoProof /\ vCom = com
    /\ vfs = vctx /\ vres = NoErr
    /\ vin = [proof |-> NoProof, Com |-> com] /\ vrounds = <<>>
    /\ heap = <<>> /\ calls = <<>>

\* Both calls are made with a fresh transcript.
InitWNLA == WNLAStart(InstanceInputs, {<<NewKeccakFS, NewKeccakFS>>})

\* The transcript k after the calls s are made on it, in order.
RECURSIVE After(_, _)
After(k, s) ==
    IF s = <<>> THEN k
    ELSE LET e == Head(s)
         IN  After(IF e.op = "GetChallenge" THEN GetChallenge(k).k ELSE Absorb(k, e).k,
                   Tail(s))

\* The calls a caller makes on a transcript before it passes it on.
ContextInputs ==
    {<<>>,
     <<Call("AddDomain", FALSE, 0, DOMAIN_WNLA, 0)>>,
     <<Call("AddPoint", FALSE, 0, <<>>, 3),
       Call("GetChallenge", FALSE, 0, <<>>, 0),
       Call("AddNumber", FALSE, 2, <<>>, 0)>>}

\* The prover's and the verifier's transcripts: the same calls were made on
\* both, or calls on the prover's only.
TranscriptInputs ==
    {<<After(NewKeccakFS, s), After(NewKeccakFS, s)>> : s \in ContextInputs}
    \cup {<<After(NewKeccakFS, <<Call("AddDomain", FALSE, 0, DOMAIN_WNLA, 0)>>),
            NewKeccakFS>>}

\* The calls are made with transcripts that were used before.
InitWNLACtx == WNLAStart(InstanceInputs, TranscriptInputs)

\* The challenge c has the value y: the value it was given before, or any
\* scalar when it is squeezed for the first time.
Squeeze(c, y) ==
    /\ c \in DOMAIN oracle => y = oracle[c]
    /\ oracle' = IF c \in DOMAIN oracle THEN oracle ELSE oracle @@ (c :> y)

\* The base case taken for six scalars as well.
ProveBase_AtMostSix ==
    /\ ppc = "call"
    /\ Len(pl) + Len(pn) <= 6
    /\ proof' = WeightNormLinearArgumentProof(<<>>, <<>>, pl, pn)
    /\ ppc' = IF pstack = <<>> THEN "done" ELSE "return"
    /\ UNCHANGED <<pPub, pCom, pl, pn, pfs, pstack, prounds>>
    /\ UNCHANGED <<fsVars, randVars, callerVars, sharedVars, oracle, verifierVars>>

\* proveWNLARecursive, lines 113-122: the witness is sent in clear.
ProveBase ==
    /\ ppc = "call"
    /\ Len(pl) + Len(pn) < 6
    /\ proof' = WeightNormLinearArgumentProof(<<>>, <<>>, pl, pn)
    /\ ppc' = IF pstack = <<>> THEN "done" ELSE "return"
    /\ UNCHANGED <<pPub, pCom, pl, pn, pfs, pstack, prounds>>
    /\ UNCHANGED <<fsVars, randVars, callerVars, sharedVars, oracle, verifierVars>>

\* proveWNLARecursive, lines 124-198: one round, up to the recursive call.
\* CommitWNLA returns a point for every input, so the branch of lines
\* 182-190 is never taken.
ProveRound ==
    /\ ppc = "call"
    /\ Len(pl) + Len(pn) >= 6
    /\ pPub.Ro # 0
    /\ LET xr == proveWNLARecursive_XR(pPub, pl, pn)
           t  == proveWNLARecursive_Transcript(pfs, pPub, pCom, xr.X, xr.R)
       IN  \E y \in Scalars :
             /\ Squeeze(t.c, y)
             /\ LET red == proveWNLARecursive_Reduce(pPub, pl, pn, y)
                IN  /\ pPub' = red.public_
                    /\ pl' = red.l_
                    /\ pn' = red.n_
                    /\ pCom' = red.commitment
                    /\ prounds' = Append(prounds,
                          [Com |-> pCom, X |-> xr.X, R |-> xr.R, c |-> t.c, y |-> y,
                           public |-> red.public_, next |-> red.commitment,
                           l |-> red.l_, n |-> red.n_])
             /\ pfs' = t.k
             /\ pstack' = Append(pstack, xr)
    /\ UNCHANGED <<ppc, proof>>
    /\ UNCHANGED <<fsVars, randVars, callerVars, sharedVars, verifierVars>>

\* proveWNLARecursive, line 124: inv(0) fails, and the call with it.
ProveInvFails ==
    /\ ppc = "call"
    /\ Len(pl) + Len(pn) >= 6
    /\ pPub.Ro = 0
    /\ ppc' = "failed"
    /\ UNCHANGED <<pPub, pCom, pl, pn, pfs, pstack, proof, prounds>>
    /\ UNCHANGED <<fsVars, randVars, callerVars, sharedVars, oracle, verifierVars>>

\* A call returns its X and R behind the result of its recursive call.
ProveReturn_Append ==
    /\ ppc = "return"
    /\ LET f == pstack[Len(pstack)]
       IN  proof' = WeightNormLinearArgumentProof(proof.R \o <<f.R>>, proof.X \o <<f.X>>,
                                                  proof.L, proof.N)
    /\ pstack' = SubSeq(pstack, 1, Len(pstack) - 1)
    /\ ppc' = IF Len(pstack) = 1 THEN "done" ELSE "return"
    /\ UNCHANGED <<pPub, pCom, pl, pn, pfs, prounds>>
    /\ UNCHANGED <<fsVars, randVars, callerVars, sharedVars, oracle, verifierVars>>

\* proveWNLARecursive, lines 200-205: a call returns its X and R in front
\* of the result of its recursive call.
ProveReturn ==
    /\ ppc = "return"
    /\ LET f == pstack[Len(pstack)]
       IN  proof' = WeightNormLinearArgumentProof(<<f.R>> \o proof.R, <<f.X>> \o proof.X,
                                                  proof.L, proof.N)
    /\ pstack' = SubSeq(pstack, 1, Len(pstack) - 1)
    /\ ppc' = IF Len(pstack) = 1 THEN "done" ELSE "return"
    /\ UNCHANGED <<pPub, pCom, pl, pn, pfs, prounds>>
    /\ UNCHANGED <<fsVars, randVars, callerVars, sharedVars, oracle, verifierVars>>

\* The proofs and commitments VerifyWNLA is called with: the prover's, and
\* changed ones.
ClearProof(l, n) == WeightNormLinearArgumentProof(<<>>, <<>>, l, n)

\* A proof of one round on the unfolded public, whatever its sizes, for a
\* public whose vectors have halves of equal length.
OneRoundInputs ==
    IF Len(wl) % 2 = 0 /\ Len(wn) % 2 = 0
    THEN {[proof |-> WeightNormLinearArgumentProof(<<0>>, <<3>>, reduceVector(wl).res0,
                                                    reduceVector(wn).res0),
           Com |-> com]}
    ELSE {}

VerifyInputs ==
    {[proof |-> proof, Com |-> com],
     [proof |-> ClearProof(wl, wn), Com |-> com],
     [proof |-> ClearProof(wl, wn), Com |-> PointAdd(com, 1)],
     [proof |-> ClearProof([wl EXCEPT ![1] = add(@, 1)], wn), Com |-> com],
     [proof |-> [proof EXCEPT !.X = Append(@, 0)], Com |-> com],
     [proof |-> [proof EXCEPT !.R = Append(@, 0)], Com |-> com]}
    \cup OneRoundInputs

\* The caller passes a proof, a commitment and its transcript to VerifyWNLA.
Submit ==
    /\ ppc = "done"
    /\ vpc = "idle"
    /\ \E input \in VerifyInputs :
          /\ vProof' = input.proof
          /\ vCom' = input.Com
          /\ vin' = input
    /\ vPub' = pub
    /\ vfs' = vctx
    /\ vpc' = "call"
    /\ UNCHANGED <<vres, vrounds>>
    /\ UNCHANGED <<fsVars, randVars, callerVars, sharedVars, oracle, proverVars>>

\* The length check returning its error after the commitment is absorbed.
VerifyLength_AfterAbsorb ==
    /\ vpc = "call"
    /\ Len(vProof.X) # Len(vProof.R)
    /\ vres' = "invalid length for R and X vectors: should be equal"
    /\ vpc' = "done"
    /\ vfs' = AddPoint(vfs, IsNilPoint(vCom), vCom).k
    /\ UNCHANGED <<vPub, vProof, vCom, vin, vrounds>>
    /\ UNCHANGED <<fsVars, randVars, callerVars, sharedVars, oracle, proverVars>>

\* VerifyWNLA, lines 29-31.
VerifyLength ==
    /\ vpc = "call"
    /\ Len(vProof.X) # Len(vProof.R)
    /\ vres' = "invalid length for R and X vectors: should be equal"
    /\ vpc' = "done"
    /\ UNCHANGED <<vPub, vProof, vCom, vfs, vin, vrounds>>
    /\ UNCHANGED <<fsVars, randVars, callerVars, sharedVars, oracle, proverVars>>

\* VerifyWNLA, lines 33-45.
VerifyBase ==
    /\ vpc = "call"
    /\ Len(vProof.X) = Len(vProof.R)
    /\ Len(vProof.X) = 0
    /\ vres' = VerifyWNLA_Base(vPub, vProof, vCom)
    /\ vpc' = "done"
    /\ UNCHANGED <<vPub, vProof, vCom, vfs, vin, vrounds>>
    /\ UNCHANGED <<fsVars, randVars, callerVars, sharedVars, oracle, proverVars>>

\* VerifyWNLA, lines 47-100: one round, up to the recursive call.
VerifyRound ==
    /\ vpc = "call"
    /\ Len(vProof.X) = Len(vProof.R)
    /\ Len(vProof.X) # 0
    /\ LET t == VerifyWNLA_Transcript(vfs, vPub, vProof, vCom)
       IN  /\ vfs' = t.k
           /\ IF t.err # NoErr
              THEN /\ vres' = t.err
                   /\ vpc' = "done"
                   /\ UNCHANGED <<vPub, vProof, vCom, vrounds, oracle>>
              ELSE \E y \in Scalars :
                     /\ Squeeze(t.c, y)
                     /\ LET red == VerifyWNLA_Reduce(vPub, vProof, vCom, y)
                        IN  /\ vPub' = red.public
                            /\ vProof' = red.proof
                            /\ vCom' = red.Com
                            /\ vrounds' = Append(vrounds,
                                  [Com |-> vCom, X |-> vProof.X[1], R |-> vProof.R[1],
                                   c |-> t.c, y |-> y,
                                   public |-> red.public, next |-> red.Com])
                     /\ UNCHANGED <<vres, vpc>>
    /\ UNCHANGED vin
    /\ UNCHANGED <<fsVars, randVars, callerVars, sharedVars, proverVars>>

NextWNLA ==
    \/ ProveBase
    \/ ProveRound
    \/ ProveInvFails
    \/ ProveReturn
    \/ Submit
    \/ VerifyLength
    \/ VerifyBase
    \/ VerifyRound

NextFS ==
    \/ DoAddDomain(MaxOps)
    \/ DoAddBytes(MaxOps)
    \/ DoAddPoint(MaxOps)
    \/ DoAddNumber(MaxOps)
    \/ DoGetChallenge(MaxOps)

NextPair ==
    \/ DoAddDomain(MaxPairOps)
    \/ DoAddBytes(MaxPairOps)
    \/ DoAddPoint(MaxPairOps)
    \/ DoAddNumber(MaxPairOps)
    \/ DoGetChallenge(MaxPairOps)
    \/ Replay

SpecFS == InitFS /\ [][NextFS]_vars

SpecPair == InitPair /\ [][NextPair]_vars

NextNum == DoAddScalar(MaxNumOps)

NextConcat == DoAbsorb(MaxConcatOps)

SpecConcat == InitFS /\ [][NextConcat]_vars

SpecNum == InitFS /\ [][NextNum]_vars

SpecWNLA == InitWNLA /\ [][NextWNLA]_vars

SpecWNLACtx == InitWNLACtx /\ [][NextWNLA]_vars

\* A call of proveWNLARecursive is running: it is at its entry or at its
\* return, where one of ProveBase, ProveRound, ProveInvFails and ProveReturn
\* is enabled.
ProverRuns == ppc \in {"call", "return"}

\* A step of the running prover.
ProverStep ==
    /\ ProverRuns
    /\ <<ppc, pstack, prounds>>' # <<ppc, pstack, prounds>>

\* A call of VerifyWNLA is running: one of VerifyLength, VerifyBase and
\* VerifyRound is enabled.
VerifierRuns == vpc = "call"

\* A step of the running verifier.
VerifierStep ==
    /\ VerifierRuns
    /\ <<vpc, vrounds>>' # <<vpc, vrounds>>

\* ProveWNLA and VerifyWNLA are sequential functions: a call that is running
\* takes its next step.  This is weak fairness of the prover's and of the
\* verifier's steps, with ENABLED written out as ProverRuns, VerifierRuns.
FairWNLA ==
    /\ []<>(~ProverRuns) \/ []<><<ProverStep>>_vars
    /\ []<>(~VerifierRuns) \/ []<><<VerifierStep>>_vars

SpecWNLALive == InitWNLA /\ [][NextWNLA]_vars /\ FairWNLA

---------------------------------------------------------------------------
(* SpecShared: ProveWNLA and VerifyWNLA on objects in memory *)

\* The objects the calls work on are held in heap, one sequence of objects
\* per owner: 0 is the caller, 1 and 2 are the two calls of ProveWNLA and 3
\* is the call of VerifyWNLA.  The address <<o, k>> is that of the k-th
\* object owner o made, and an object is one of
\*   *big.Int                          [int |-> v]
\*   *bn256.G1                         [pt |-> v, affine |-> b]
\*   the array behind a slice          [elems |-> <<address, ...>>]
\*   *WeightNormLinearPublic           [G, GVec, HVec, C, Ro, Mu]
\*   *WeightNormLinearArgumentProof    [R, X, L, N]
\*   *KeccakFS                         [state, counter]
\* with addresses for the pointer fields and a slice, the value
\* [arr |-> address, off |-> k, len |-> n], for the slice fields.  A G1's
\* affine says whether its coordinates are normalised: G1.Marshal
\* normalises the coordinates of its receiver in place, which leaves the
\* group element as it is.
Owners == 0 .. 3

IntObj(v) == [int |-> v]

PointObj(v) == [pt |-> v, affine |-> FALSE]

IntObjs(v) == [i \in 1 .. Len(v) |-> IntObj(v[i])]

PointObjs(v) == [i \in 1 .. Len(v) |-> PointObj(v[i])]

\* One object, or a slice of objects, to be made.
One(obj) == [vec |-> FALSE, objs |-> <<obj>>]

Many(objs) == [vec |-> TRUE, objs |-> objs]

\* new and make: the objects that owner o makes for the given items when
\* it has made base objects before, and the address or slice of each item.
\* A slice's elements are followed by its array.
RECURSIVE Make(_, _, _)
Make(o, base, items) ==
    IF items = <<>> THEN [objs |-> <<>>, refs |-> <<>>]
    ELSE LET it   == Head(items)
             k    == Len(it.objs)
             arr  == [elems |-> [i \in 1 .. k |-> <<o, base + i>>]]
             here == IF it.vec THEN it.objs \o <<arr>> ELSE it.objs
             ref  == IF it.vec THEN [arr |-> <<o, base + k + 1>>, off |-> 0, len |-> k]
                     ELSE <<o, base + 1>>
             rest == Make(o, base + Len(here), Tail(items))
         IN  [objs |-> here \o rest.objs, refs |-> <<ref>> \o rest.refs]

\* The object at address a.
At(h, a) == h[a[1]][a[2]]

\* The addresses held by the slice s, and s[k:].
Elems(h, s) == [i \in 1 .. s.len |-> At(h, s.arr).elems[s.off + i]]

ReSlice(s, k) == [arr |-> s.arr, off |-> s.off + k, len |-> s.len - k]

\* The values behind a slice of *big.Int and of *bn256.G1.
Ints(h, s) == [i \in 1 .. s.len |-> At(h, Elems(h, s)[i]).int]

Points(h, s) == [i \in 1 .. s.len |-> At(h, Elems(h, s)[i]).pt]

\* The values behind a *WeightNormLinearPublic and a
\* *WeightNormLinearArgumentProof.
PublicAt(h, a) ==
    LET p == At(h, a)
    IN  WeightNormLinearPublic(At(h, p.G).pt, Points(h, p.GVec), Points(h, p.HVec),
                               Ints(h, p.C), At(h, p.Ro).int, At(h, p.Mu).int)

ProofAt(h, a) ==
    LET q == At(h, a)
    IN  WeightNormLinearArgumentProof(Points(h, q.R), Points(h, q.X),
                                      Ints(h, q.L), Ints(h, q.N))

\* The objects read through a slice, a public and a proof.
SliceCells(h, s) == {s.arr} \cup {Elems(h, s)[i] : i \in 1 .. s.len}

PublicCells(h, a) ==
    LET p == At(h, a)
    IN  {a, p.G, p.Ro, p.Mu} \cup SliceCells(h, p.GVec)
            \cup SliceCells(h, p.HVec) \cup SliceCells(h, p.C)

ProofCells(h, a) ==
    LET q == At(h, a)
    IN  {a} \cup SliceCells(h, q.R) \cup SliceCells(h, q.X)
            \cup SliceCells(h, q.L) \cup SliceCells(h, q.N)

\* The heap after owner o has made the objects objs, and the addresses of
\* the objects it makes.
Alloc(h, o, objs) == [h EXCEPT ![o] = @ \o objs]

Fresh(h, o, objs) == {<<o, Len(h[o]) + i>> : i \in 1 .. Len(objs)}

\* The heap after a write of obj to the object at a.
Store(h, a, obj) == [h EXCEPT ![a[1]][a[2]] = obj]

\* G1.Marshal on each of the points at the addresses S: the bytes are those
\* of Marshal, and the receiver's coordinates are normalised in place.
Marshalled(h, S) ==
    [o \in DOMAIN h |->
        [k \in 1 .. Len(h[o]) |->
            IF <<o, k>> \in S THEN [h[o][k] EXCEPT !.affine = TRUE] ELSE h[o][k]]]

\* The instances of the interleaved calls: one that is proved in clear, and
\* ones of one and of two rounds, with Mu = Ro^2, with Mu # Ro^2 and with
\* Mu = 0, the last of which makes the second round's inv fail.
SharedInputs ==
    {inst \in InstanceInputs :
        /\ inst[4] = <<1, 2>>
        /\ inst[5] = <<3, 2>>
        /\ \/ inst[1] = <<2, 2>> /\ inst[2] = <<1, 1>> /\ inst[6] = <<2, 1>>
           \/ inst[1] = <<4, 2>> /\ inst[2] \in {<<1, 1>>, <<4, 2>>, <<2, 3>>}
           \/ inst[1] = <<8, 4>> /\ inst[2] \in {<<1, 1>>, <<2, 1>>, <<0, 1>>}}

\* What the caller makes: the public, and for each call of ProveWNLA a
\* witness, a commitment and a transcript of its own; the transcript of the
\* call of VerifyWNLA; and the public's struct, made last.
CallerItems ==
    <<One(PointObj(pub.G)), Many(PointObjs(pub.GVec)), Many(PointObjs(pub.HVec)),
      Many(IntObjs(pub.C)), One(IntObj(pub.Ro)), One(IntObj(pub.Mu)),
      Many(IntObjs(wl)), Many(IntObjs(wn)), One(PointObj(com)), One(NewKeccakFS),
      Many(IntObjs(wl)), Many(IntObjs(wn)), One(PointObj(com)), One(NewKeccakFS),
      One(NewKeccakFS)>>

CallerMade ==
    LET m == Make(0, 0, CallerItems)
        r == m.refs
        public == [G |-> r[1], GVec |-> r[2], HVec |-> r[3], C |-> r[4],
                   Ro |-> r[5], Mu |-> r[6]]
    IN  [objs   |-> m.objs \o <<public>>,
         public |-> <<0, Len(m.objs) + 1>>,
         l      |-> <<r[7], r[11]>>,
         n      |-> <<r[8], r[12]>>,
         Com    |-> <<r[9], r[13]>>,
         fs     |-> <<r[10], r[14], r[15]>>]

\* The absent address.
Nil == <<>>

\* A call of ProveWNLA about to run with the arguments a, and the call of
\* VerifyWNLA not yet made.
ProveFrame(a) ==
    [pc |-> "call", args |-> a,
     public |-> a.public, Com |-> a.Com, l |-> a.l, n |-> a.n,
     X |-> Nil, R |-> Nil, y |-> 0, stack |-> <<>>, proof |-> Nil,
     rd |-> {}, wr |-> {}]

VerifyFrame ==
    [pc |-> "idle", args |-> <<>>, given |-> NoProof,
     public |-> Nil, proof |-> Nil, Com |-> Nil, y |-> 0, res |-> NoErr,
     rd |-> {}, wr |-> {}]

\* The caller builds one instance in memory and calls ProveWNLA twice, with
\* the same public.
InitShared ==
    /\ FSIdle
    /\ RandIdle
    /\ ctx = NewKeccakFS /\ vctx = NewKeccakFS
    /\ CallerBuilds(SharedInputs)
    /\ oracle = <<>>
    /\ ppc = "done" /\ pPub = <<>> /\ pCom = 0 /\ pl = <<>> /\ pn = <<>>
    /\ pfs = NewKeccakFS /\ pstack = <<>> /\ proof = <<>> /\ prounds = <<>>
    /\ vpc = "done" /\ vPub = <<>> /\ vProof = <<>> /\ vCom = 0
    /\ vfs = NewKeccakFS /\ vres = NoErr /\ vin = <<>> /\ vrounds = <<>>
    /\ LET m == CallerMade
       IN  /\ heap = [o \in Owners |-> IF o = 0 THEN m.objs ELSE <<>>]
           /\ calls = <<ProveFrame([public |-> m.public, Com |-> m.Com[1],
                                    fs |-> m.fs[1], l |-> m.l[1], n |-> m.n[1]]),
                        ProveFrame([public |-> m.public, Com |-> m.Com[2],
                                    fs |-> m.fs[2], l |-> m.l[2], n |-> m.n[2]]),
                        VerifyFrame>>

\* What the other steps leave alone.
SharedFrame == UNCHANGED <<fsVars, randVars, callerVars, proverVars, verifierVars>>

\* The objects a call of ProveWNLA reads when it computes with its public
\* and its witness.
ProveReads(f) ==
    PublicCells(heap, f.public) \cup SliceCells(heap, f.l) \cup SliceCells(heap, f.n)

\* proveWNLARecursive, lines 113-122, in call i: the proof holds two empty
\* slices of its own and the slices l and n it was given.
SharedProveBase(i) ==
    LET f == calls[i]
        m == Make(i, Len(heap[i]), <<Many(<<>>), Many(<<>>)>>)
        q == [R |-> m.refs[1], X |-> m.refs[2], L |-> f.l, N |-> f.n]
        objs == m.objs \o <<q>>
    IN  /\ f.pc = "call"
        /\ f.l.len + f.n.len < 6
        /\ heap' = Alloc(heap, i, objs)
        /\ calls' = [calls EXCEPT ![i] =
               [f EXCEPT !.proof = <<i, Len(heap[i]) + Len(objs)>>,
                         !.pc = IF f.stack = <<>> THEN "done" ELSE "return",
                         !.wr = @ \cup Fresh(heap, i, objs)]]
        /\ UNCHANGED oracle
        /\ SharedFrame

\* proveWNLARecursive, line 124, in call i: inv(0) fails.
SharedProveInvFails(i) ==
    LET f == calls[i]
    IN  /\ f.pc = "call"
        /\ f.l.len + f.n.len >= 6
        /\ At(heap, At(heap, f.public).Ro).int = 0
        /\ calls' = [calls EXCEPT ![i] =
               [f EXCEPT !.pc = "failed",
                         !.rd = @ \cup {f.public, At(heap, f.public).Ro}]]
        /\ UNCHANGED <<heap, oracle>>
        /\ SharedFrame

\* proveWNLARecursive, lines 124-150, in call i: X and R are new points.
SharedProveXR(i) ==
    LET f == calls[i]
        public == PublicAt(heap, f.public)
        xr == proveWNLARecursive_XR(public, Ints(heap, f.l), Ints(heap, f.n))
        m == Make(i, Len(heap[i]), <<One(PointObj(xr.X)), One(PointObj(xr.R))>>)
    IN  /\ f.pc = "call"
        /\ f.l.len + f.n.len >= 6
        /\ public.Ro # 0
        /\ heap' = Alloc(heap, i, m.objs)
        /\ calls' = [calls EXCEPT ![i] =
               [f EXCEPT !.X = m.refs[1], !.R = m.refs[2],
                         !.pc = "absorb",
                         !.rd = @ \cup ProveReads(f),
                         !.wr = @ \cup Fresh(heap, i, m.objs)]]
        /\ UNCHANGED oracle
        /\ SharedFrame

\* proveWNLARecursive, lines 153-160, in call i: the transcript absorbs and
\* is squeezed; AddPoint marshals Com, X and R.
SharedProveAbsorb(i) ==
    LET f == calls[i]
        fs == f.args.fs
        t == proveWNLARecursive_Transcript(At(heap, fs), PublicAt(heap, f.public),
                 At(heap, f.Com).pt, At(heap, f.X).pt, At(heap, f.R).pt)
    IN  /\ f.pc = "absorb"
        /\ \E y \in Scalars :
             /\ Squeeze(t.c, y)
             /\ calls' = [calls EXCEPT ![i] =
                    [f EXCEPT !.y = y,
                              !.pc = "reduce",
                              !.rd = @ \cup {fs, f.Com, f.X, f.R, f.public},
                              !.wr = @ \cup {fs, f.Com, f.X, f.R}]]
        /\ heap' = Store(Marshalled(heap, {f.Com, f.X, f.R}), fs, t.k)
        /\ SharedFrame

\* What a call of ProveWNLA makes in lines 163-181: the folded vectors, mu2
\* and the commitment, with the public struct p_ made last.  The new struct
\* holds the pointer G of the old one, and the old one's Mu as its Ro.
ProveMakes(i, f, red) ==
    LET m == Make(i, Len(heap[i]),
                  <<Many(PointObjs(red.public_.HVec)), Many(PointObjs(red.public_.GVec)),
                    Many(IntObjs(red.public_.C)), One(IntObj(red.public_.Mu)),
                    Many(IntObjs(red.l_)), Many(IntObjs(red.n_)),
                    One(PointObj(red.commitment))>>)
        p  == At(heap, f.public)
        p_ == [G |-> p.G, GVec |-> m.refs[2], HVec |-> m.refs[1], C |-> m.refs[3],
               Ro |-> p.Mu, Mu |-> m.refs[4]]
    IN  [objs |-> m.objs, p_ |-> p_, l_ |-> m.refs[5], n_ |-> m.refs[6],
         commitment |-> m.refs[7]]

\* The step with the folded public written into the struct the call was
\* given instead of a new one.
SharedProveReduce_InPlace(i) ==
    LET f == calls[i]
        red == proveWNLARecursive_Reduce(PublicAt(heap, f.public),
                   Ints(heap, f.l), Ints(heap, f.n), f.y)
        m == ProveMakes(i, f, red)
    IN  /\ f.pc = "reduce"
        /\ heap' = Store(Alloc(heap, i, m.objs), f.public, m.p_)
        /\ calls' = [calls EXCEPT ![i] =
               [f EXCEPT !.Com = m.commitment,
                         !.l = m.l_, !.n = m.n_,
                         !.stack = Append(@, [X |-> f.X, R |-> f.R]),
                         !.pc = "call",
                         !.rd = @ \cup ProveReads(f),
                         !.wr = @ \cup Fresh(heap, i, m.objs) \cup {f.public}]]
        /\ UNCHANGED oracle
        /\ SharedFrame

\* proveWNLARecursive, lines 163-198, in call i: the folded public, witness
\* and commitment are new objects, and the recursive call is made on them.
SharedProveReduce(i) ==
    LET f == calls[i]
        red == proveWNLARecursive_Reduce(PublicAt(heap, f.public),
                   Ints(heap, f.l), Ints(heap, f.n), f.y)
        m == ProveMakes(i, f, red)
        objs == m.objs \o <<m.p_>>
    IN  /\ f.pc = "reduce"
        /\ heap' = Alloc(heap, i, objs)
        /\ calls' = [calls EXCEPT ![i] =
               [f EXCEPT !.public = <<i, Len(heap[i]) + Len(objs)>>,
                         !.Com = m.commitment,
                         !.l = m.l_, !.n = m.n_,
                         !.stack = Append(@, [X |-> f.X, R |-> f.R]),
                         !.pc = "call",
                         !.rd = @ \cup ProveReads(f),
                         !.wr = @ \cup Fresh(heap, i, objs)]]
        /\ UNCHANGED oracle
        /\ SharedFrame

\* proveWNLARecursive, lines 200-205, in call i: R and X are appended to new
\* slices, and L and N are the slices of the proof that was returned.
SharedProveReturn(i) ==
    LET f == calls[i]
        res == At(heap, f.proof)
        top == f.stack[Len(f.stack)]
        b == Len(heap[i])
        Rs == <<top.R>> \o Elems(heap, res.R)
        Xs == <<top.X>> \o Elems(heap, res.X)
        q == [R |-> [arr |-> <<i, b + 1>>, off |-> 0, len |-> Len(Rs)],
              X |-> [arr |-> <<i, b + 2>>, off |-> 0, len |-> Len(Xs)],
              L |-> res.L, N |-> res.N]
        objs == <<[elems |-> Rs], [elems |-> Xs], q>>
    IN  /\ f.pc = "return"
        /\ heap' = Alloc(heap, i, objs)
        /\ calls' = [calls EXCEPT ![i] =
               [f EXCEPT !.proof = <<i, b + 3>>,
                         !.stack = SubSeq(@, 1, Len(@) - 1),
                         !.pc = IF Len(f.stack) = 1 THEN "done" ELSE "return",
                         !.rd = @ \cup {f.proof, res.R.arr, res.X.arr},
                         !.wr = @ \cup Fresh(heap, i, objs)]]
        /\ UNCHANGED oracle
        /\ SharedFrame

\* The caller calls VerifyWNLA with the public, the proof that the first
\* call of ProveWNLA returned, that call's commitment, and a transcript of
\* its own.
SharedVerifyCall ==
    LET f == calls[3]
        m == CallerMade
        a == [public |-> m.public, proof |-> calls[1].proof,
              Com |-> m.Com[1], fs |-> m.fs[3]]
    IN  /\ f.pc = "idle"
        /\ calls[1].pc = "done"
        /\ calls' = [calls EXCEPT ![3] =
               [f EXCEPT !.pc = "call", !.args = a,
                         !.given = ProofAt(heap, a.proof),
                         !.public = a.public, !.proof = a.proof, !.Com = a.Com]]
        /\ UNCHANGED <<heap, oracle>>
        /\ SharedFrame

\* VerifyWNLA, lines 29-45: the length check, and the base case, which
\* marshals a commitment of its own and Com.
SharedVerifyBase ==
    LET f == calls[3]
        q == At(heap, f.proof)
        public == PublicAt(heap, f.public)
        prf == ProofAt(heap, f.proof)
        m == Make(3, Len(heap[3]), <<One(PointObj(CommitWNLA(public, prf.L, prf.N)))>>)
    IN  /\ f.pc = "call"
        /\ q.X.len # q.R.len \/ q.X.len = 0
        /\ IF q.X.len # q.R.len
           THEN /\ heap' = heap
                /\ calls' = [calls EXCEPT ![3] =
                       [f EXCEPT !.res = "invalid length for R and X vectors: should be equal",
                                 !.pc = "done",
                                 !.rd = @ \cup {f.proof}]]
           ELSE /\ heap' = Marshalled(Alloc(heap, 3, m.objs), {m.refs[1], f.Com})
                /\ calls' = [calls EXCEPT ![3] =
                       [f EXCEPT !.res = VerifyWNLA_Base(public, prf, At(heap, f.Com).pt),
                                 !.pc = "done",
                                 !.rd = @ \cup PublicCells(heap, f.public)
                                          \cup ProofCells(heap, f.proof) \cup {f.Com},
                                 !.wr = @ \cup Fresh(heap, 3, m.objs) \cup {f.Com}]]
        /\ UNCHANGED oracle
        /\ SharedFrame

\* VerifyWNLA, lines 48-65: the transcript absorbs and is squeezed; AddPoint
\* marshals Com, proof.X[0] and proof.R[0].  The points are objects, none is
\* nil, and no absorption fails.
SharedVerifyAbsorb ==
    LET f == calls[3]
        fs == f.args.fs
        q == At(heap, f.proof)
        X0 == Elems(heap, q.X)[1]
        R0 == Elems(heap, q.R)[1]
        t == VerifyWNLA_Transcript(At(heap, fs), PublicAt(heap, f.public),
                                   ProofAt(heap, f.proof), At(heap, f.Com).pt)
    IN  /\ f.pc = "call"
        /\ q.X.len = q.R.len /\ q.X.len # 0
        /\ t.err = NoErr
        /\ heap' = Store(Marshalled(heap, {f.Com, X0, R0}), fs, t.k)
        /\ \E y \in Scalars :
             /\ Squeeze(t.c, y)
             /\ calls' = [calls EXCEPT ![3] =
                    [f EXCEPT !.y = y, !.pc = "reduce",
                              !.rd = @ \cup {fs, f.Com, X0, R0, f.proof, f.public,
                                             q.X.arr, q.R.arr},
                              !.wr = @ \cup {fs, f.Com, X0, R0}]]
        /\ SharedFrame

\* VerifyWNLA, lines 67-100: the folded public and Com_ are new objects; the
\* new proof holds the slices R[1:] and X[1:] of the old one and its L and
\* N; the new public holds the old one's pointer G, and its Mu as its Ro.
SharedVerifyReduce ==
    LET f == calls[3]
        p == At(heap, f.public)
        q == At(heap, f.proof)
        red == VerifyWNLA_Reduce(PublicAt(heap, f.public), ProofAt(heap, f.proof),
                                 At(heap, f.Com).pt, f.y)
        m == Make(3, Len(heap[3]),
                  <<Many(PointObjs(red.public.HVec)), Many(PointObjs(red.public.GVec)),
                    Many(IntObjs(red.public.C)), One(PointObj(red.Com)),
                    One(IntObj(red.public.Mu))>>)
        p_ == [G |-> p.G, GVec |-> m.refs[2], HVec |-> m.refs[1], C |-> m.refs[3],
               Ro |-> p.Mu, Mu |-> m.refs[5]]
        q_ == [R |-> ReSlice(q.R, 1), X |-> ReSlice(q.X, 1), L |-> q.L, N |-> q.N]
        objs == m.objs \o <<p_, q_>>
        b == Len(heap[3]) + Len(m.objs)
    IN  /\ f.pc = "reduce"
        /\ heap' = Alloc(heap, 3, objs)
        /\ calls' = [calls EXCEPT ![3] =
               [f EXCEPT !.public = <<3, b + 1>>,
                         !.proof = <<3, b + 2>>,
                         !.Com = m.refs[4],
                         !.pc = "call",
                         !.rd = @ \cup PublicCells(heap, f.public)
                                  \cup {f.proof, f.Com, q.X.arr, q.R.arr,
                                        Elems(heap, q.X)[1], Elems(heap, q.R)[1]},
                         !.wr = @ \cup Fresh(heap, 3, objs)]]
        /\ UNCHANGED oracle
        /\ SharedFrame

\* Two calls of ProveWNLA and one of VerifyWNLA, their steps interleaved.
NextShared ==
    \/ \E i \in {1, 2} : SharedProveBase(i)
    \/ \E i \in {1, 2} : SharedProveInvFails(i)
    \/ \E i \in {1, 2} : SharedProveXR(i)
    \/ \E i \in {1, 2} : SharedProveAbsorb(i)
    \/ \E i \in {1, 2} : SharedProveReduce(i)
    \/ \E i \in {1, 2} : SharedProveReturn(i)
    \/ SharedVerifyCall
    \/ SharedVerifyBase
    \/ SharedVerifyAbsorb
    \/ SharedVerifyReduce

SpecShared == InitShared /\ [][NextShared]_vars

\* The challenge the random oracle holds for c, once it holds one.
Known(c) == c \in DOMAIN oracle

\* proveWNLARecursive, lines 112-206, as one call run alone on the values of
\* its arguments: the proof and the transcript it returns, whether inv
\* failed, and whether the oracle holds every challenge it squeezes.
RECURSIVE proveWNLARecursive(_, _, _, _, _)
proveWNLARecursive(public, Com, fs, l, n) ==
    IF Len(l) + Len(n) < 6
    THEN [proof |-> WeightNormLinearArgumentProof(<<>>, <<>>, l, n),
          fs |-> fs, failed |-> FALSE, known |-> TRUE]
    ELSE IF public.Ro = 0
    THEN [proof |-> NoProof, fs |-> fs, failed |-> TRUE, known |-> TRUE]
    ELSE LET xr == proveWNLARecursive_XR(public, l, n)
             t  == proveWNLARecursive_Transcript(fs, public, Com, xr.X, xr.R)
         IN  IF ~Known(t.c)
             THEN [proof |-> NoProof, fs |-> t.k, failed |-> FALSE, known |-> FALSE]
             ELSE LET red == proveWNLARecursive_Reduce(public, l, n, oracle[t.c])
                      res == proveWNLARecursive(red.public_, red.commitment, t.k,
                                                red.l_, red.n_)
                  IN  [proof |-> WeightNormLinearArgumentProof(
                                     <<xr.R>> \o res.proof.R, <<xr.X>> \o res.proof.X,
                                     res.proof.L, res.proof.N),
                       fs |-> res.fs, failed |-> res.failed, known |-> res.known]

\* VerifyWNLA, lines 28-101, as one call run alone on the values of its
\* arguments: the error and the transcript it returns, and whether the
\* oracle holds every challenge it squeezes.
RECURSIVE VerifyWNLA(_, _, _, _)
VerifyWNLA(public, prf, Com, fs) ==
    IF Len(prf.X) # Len(prf.R)
    THEN [err |-> "invalid length for R and X vectors: should be equal",
          fs |-> fs, known |-> TRUE]
    ELSE IF Len(prf.X) = 0
    THEN [err |-> VerifyWNLA_Base(public, prf, Com), fs |-> fs, known |-> TRUE]
    ELSE LET t == VerifyWNLA_Transcript(fs, public, prf, Com)
         IN  IF t.err # NoErr THEN [err |-> t.err, fs |-> t.k, known |-> TRUE]
             ELSE IF ~Known(t.c) THEN [err |-> NoErr, fs |-> t.k, known |-> FALSE]
             ELSE LET red == VerifyWNLA_Reduce(public, prf, Com, oracle[t.c])
                  IN  VerifyWNLA(red.public, red.proof, red.Com, t.k)

---------------------------------------------------------------------------
(* SpecRand: SecureRandScalar and hashToScalarWithRejection *)

maxAttempts == 100

\* The 64 bytes rand.Read leaves in the buffer.
EntropyInputs ==
    {Zeros(64), [Zeros(64) EXCEPT ![64] = 1], [i \in 1 .. 64 |-> 255]}

\* The values of SetBytes(sha256(entropy, attempt)): below the order, the
\* order, and above it.
CandidateInputs == {0, Order - 1, Order, Order + 2}

\* rs before the call: no value and no error are returned yet.
RandCall(entropy) ==
    [pc |-> "call", entropy |-> entropy, attempt |-> 0, candidate |-> 0,
     value |-> "nil", err |-> NoErr, rejected |-> 0]

InitRand ==
    /\ FSIdle
    /\ WNLAIdle
    /\ \E entropy \in EntropyInputs : rs = RandCall(entropy)

\* SecureRandScalar, lines 41-43: rand.Read fails.
ReadFails ==
    /\ rs.pc = "call"
    /\ rs' = [rs EXCEPT !.pc = "done",
                        !.err = "insufficient entropy for scalar generation"]
    /\ UNCHANGED <<fsVars, wnlaVars>>

\* SecureRandScalar, lines 45-58: the entropy is refused when every byte is
\* zero, and passed to hashToScalarWithRejection otherwise.
ValidateEntropy ==
    /\ rs.pc = "call"
    /\ rs' = IF \A i \in 1 .. Len(rs.entropy) : rs.entropy[i] = 0
             THEN [rs EXCEPT !.pc = "done",
                             !.err = "entropy validation failed: all zero bytes detected"]
             ELSE [rs EXCEPT !.pc = "loop"]
    /\ UNCHANGED <<fsVars, wnlaVars>>

\* One iteration with a candidate equal to the order accepted.
Attempt_AcceptOrder ==
    /\ rs.pc = "loop"
    /\ rs.attempt < maxAttempts
    /\ \E candidate \in CandidateInputs :
          rs' = IF candidate <= Order
                THEN [rs EXCEPT !.pc = "done", !.candidate = candidate,
                                !.value = candidate]
                ELSE [rs EXCEPT !.attempt = @ + 1, !.candidate = candidate,
                                !.rejected = @ + 1]
    /\ UNCHANGED <<fsVars, wnlaVars>>

\* hashToScalarWithRejection, lines 98-111: one iteration of the loop.  The
\* field rejected counts the candidates that were not below the order.
Attempt ==
    /\ rs.pc = "loop"
    /\ rs.attempt < maxAttempts
    /\ \E candidate \in CandidateInputs :
          rs' = IF candidate < Order
                THEN [rs EXCEPT !.pc = "done", !.candidate = candidate,
                                !.value = candidate]
                ELSE [rs EXCEPT !.attempt = @ + 1, !.candidate = candidate,
                                !.rejected = @ + 1]
    /\ UNCHANGED <<fsVars, wnlaVars>>

\* hashToScalarWithRejection, lines 98 and 114: the loop ends without a
\* candidate.
Exhausted ==
    /\ rs.pc = "loop"
    /\ rs.attempt >= maxAttempts
    /\ rs' = [rs EXCEPT !.pc = "done",
                        !.err = "rejection sampling failed after 100 attempts"]
    /\ UNCHANGED <<fsVars, wnlaVars>>

NextRand ==
    \/ ReadFails
    \/ ValidateEntropy
    \/ Attempt
    \/ Exhausted

SpecRand == InitRand /\ [][NextRand]_vars

---------------------------------------------------------------------------
(* Properties of the transcript *)

\* The j-th byte from the right of the big-endian encoding of v.
RECURSIVE ByteAt(_, _)
ByteAt(v, j) ==
    IF v = 0 THEN 0
    ELSE IF j = 0 THEN v % 256 ELSE ByteAt(v \div 256, j - 1)

\* The 32-byte big-endian encoding of v, zero-padded.
Enc32(v) == [i \in 1 .. 32 |-> ByteAt(v, 32 - i)]

\* Whether the call e is one the transcript rejects.
Rejected(e) ==
    \/ e.op = "AddDomain" /\ e.data = <<>>
    \/ e.op \in {"AddBytes", "AddPoint", "AddNumber"} /\ e.isnil

\* The bytes the absorbing call e adds to the sponge input.
Encoding(e) ==
    CASE Rejected(e)         -> <<>>
      [] e.op = "AddDomain"  -> e.data \o <<0>>
      [] e.op = "AddBytes"   -> e.data
      [] e.op = "AddPoint"   -> IF e.pt = 0 THEN [i \in 1 .. 64 |-> 0] ELSE Marshal(e.pt)
      [] e.op = "AddNumber"  -> Enc32(e.num)
      [] OTHER               -> <<>>

\* The number of GetChallenge calls among the first m calls of log.
RECURSIVE Squeezes(_, _)
Squeezes(log, m) ==
    IF m = 0 THEN 0
    ELSE Squeezes(log, m - 1) + (IF log[m].op = "GetChallenge" THEN 1 ELSE 0)

\* The concatenation, in call order, of what the first m calls of log
\* absorbed, with the encoding of i at the i-th GetChallenge.
RECURSIVE SpongeInput(_, _)
SpongeInput(log, m) ==
    IF m = 0 THEN <<>>
    ELSE SpongeInput(log, m - 1) \o
         (IF log[m].op = "GetChallenge" THEN Enc32(Squeezes(log, m))
          ELSE Encoding(log[m]))

\* The position in log of its k-th GetChallenge.
SqueezeAt(log, k) ==
    CHOOSE m \in 1 .. Len(log) :
        log[m].op = "GetChallenge" /\ Squeezes(log, m) = k

\* C3: the k-th GetChallenge returns Keccak256(S) mod q, S being all that
\* was absorbed before it, in call order, with the 32-byte encoding of i at
\* the place of the i-th GetChallenge, i = 1..k; nothing is reset.
C3_ChallengeDerivation ==
    /\ Len(chalA) = Squeezes(script, Len(script))
    /\ \A k \in 1 .. Len(chalA) :
          chalA[k] = ChallengeOf(Keccak256(SpongeInput(script, SqueezeAt(script, k))))

\* C3: two challenges were squeezed, with a number absorbed before each.
C3_Witness ==
    /\ Len(script) = 4
    /\ script[1].op = "AddNumber" /\ ~script[1].isnil
    /\ script[2].op = "GetChallenge"
    /\ script[3].op = "AddNumber" /\ ~script[3].isnil
    /\ script[4].op = "GetChallenge"
    /\ Len(chalA) = 2

\* Whether the calls of log from position a to position b absorb nothing.
NothingAbsorbed(log, a, b) ==
    \A m \in a .. b : log[m].op # "GetChallenge" /\ Encoding(log[m]) = <<>>

\* C7: the counter is the number of GetChallenge calls made so far (0 at
\* the start, one more after each GetChallenge, the same after any other
\* call), and two GetChallenge calls with nothing absorbed between them
\* return different challenges.
C7_CounterMonotonic ==
    /\ fsA.counter = Squeezes(script, Len(script))
    /\ script # <<>> =>
          fsA.counter = preA.counter +
             (IF script[Len(script)].op = "GetChallenge" THEN 1 ELSE 0)
    /\ \A a, b \in 1 .. Len(script) :
          ( /\ a < b
            /\ script[a].op = "GetChallenge"
            /\ script[b].op = "GetChallenge"
            /\ NothingAbsorbed(script, a + 1, b - 1) )
          => chalA[Squeezes(script, a)] # chalA[Squeezes(script, b)]

\* C7: GetChallenge was called twice in a row.
C7_Witness ==
    /\ Len(script) >= 3
    /\ script[2].op = "GetChallenge"
    /\ script[3].op = "GetChallenge"
    /\ fsA.counter = 2
    /\ fsA.state # <<>>

\* The transcript and the challenges after the calls of log on a fresh
\* transcript.
RECURSIVE RunOf(_, _)
RunOf(log, m) ==
    IF m = 0 THEN [k |-> NewKeccakFS, chal |-> <<>>]
    ELSE LET before == RunOf(log, m - 1)
         IN  IF log[m].op = "GetChallenge"
             THEN LET r == GetChallenge(before.k)
                  IN  [k |-> r.k, chal |-> Append(before.chal, r.c)]
             ELSE [k |-> Absorb(before.k, log[m]).k, chal |-> before.chal]

\* C9: AddDomain(""), AddNumber(nil), AddPoint(nil) and AddBytes(nil) return
\* an error and leave the state and the counter as they were, so that the
\* transcript and every challenge are those of the same calls without the
\* rejected ones; AddBytes of an empty, non-nil slice returns no error.
C9_InputRejection ==
    /\ script # <<>> =>
          LET e == script[Len(script)]
          IN  /\ Rejected(e) => (retA # NoErr /\ fsA = preA)
              /\ (e.op = "AddBytes" /\ ~e.isnil) => retA = NoErr
    /\ LET accepted == SelectSeq(script, LAMBDA e : ~Rejected(e))
           r == RunOf(accepted, Len(accepted))
       IN  r.k = fsA /\ r.chal = chalA

\* C9: a rejected call was followed by a challenge.
C9_Witness ==
    /\ Len(script) = 4
    /\ script[1].op = "AddNumber" /\ ~script[1].isnil
    /\ script[2].op = "AddPoint" /\ script[2].isnil
    /\ script[3].op = "AddBytes" /\ ~script[3].isnil /\ script[3].data = <<>>
    /\ script[4].op = "GetChallenge"
    /\ Len(chalA) = 1

\* C10, as claimed: AddPoint of the identity returns an error and leaves the
\* transcript unchanged.
C10_IdentityRejected ==
    script # <<>> =>
       LET e == script[Len(script)]
       IN  (e.op = "AddPoint" /\ ~e.isnil /\ e.pt = 0) =>
              (retA # NoErr /\ fsA = preA)

\* C10, amended: AddPoint rejects the nil pointer only; the identity is
\* absorbed as the 64 zero bytes it marshals to, with no error.
C10_IdentityAbsorbed ==
    script # <<>> =>
       LET e == script[Len(script)]
       IN  /\ (e.op = "AddPoint" /\ ~e.isnil /\ e.pt = 0) =>
                 /\ retA = NoErr
                 /\ fsA.state = preA.state \o [i \in 1 .. 64 |-> 0]
                 /\ fsA.counter = preA.counter
           /\ (e.op = "AddPoint" /\ e.isnil) =>
                 (retA # NoErr /\ fsA = preA)

\* C10: the identity was absorbed after something else.
C10_Witness ==
    /\ Len(script) = 2
    /\ script[1].op = "AddNumber" /\ ~script[1].isnil
    /\ script[2].op = "AddPoint" /\ ~script[2].isnil /\ script[2].pt = 0
    /\ retA = NoErr

\* Whether B's calls differ from A's: in the tag of the leading AddDomain.
TagsDiffer == Retagged /\ tagB # script[1].data

\* C6: two transcripts that start with AddDomain of two different non-empty
\* tags and then make the same calls get different challenges.
C6_DomainSeparation ==
    (TagsDiffer /\ script[1].data # <<>>) =>
        \A i \in 1 .. Len(chalB) : chalB[i] # chalA[i]

\* C6: both transcripts absorbed their tag and the same number, and squeezed.
C6_Witness ==
    /\ TagsDiffer /\ script[1].data # <<>>
    /\ Len(script) = 3 /\ posB = 3
    /\ script[2].op = "AddNumber" /\ ~script[2].isnil
    /\ script[3].op = "GetChallenge"
    /\ Len(chalB) = 1

\* C8: a transcript that makes the calls another made, with the same
\* arguments, at its own pace, gets the same challenge at every
\* GetChallenge and is in the same state after the same calls; and what it
\* gets depends on nothing but the calls: its k-th challenge is the hash of
\* the bytes of the calls up to its k-th GetChallenge, its state those
\* bytes and its counter the number of its GetChallenge calls, whatever
\* the other transcript has done since.
C8_Determinism ==
    ~TagsDiffer =>
        /\ Len(chalB) <= Len(chalA)
        /\ \A i \in 1 .. Len(chalB) : chalB[i] = chalA[i]
        /\ posB = Len(script) => (fsB = fsA /\ chalB = chalA)
        /\ Len(chalB) = Squeezes(script, posB)
        /\ \A i \in 1 .. Len(chalB) :
              chalB[i] = ChallengeOf(Keccak256(SpongeInput(script, SqueezeAt(script, i))))
        /\ fsB.state = SpongeInput(script, posB)
        /\ fsB.counter = Squeezes(script, posB)

\* C8: B squeezed twice with an absorption between, after A had made all
\* its calls.
C8_Witness ==
    /\ ~TagsDiffer
    /\ Len(script) = 3 /\ posB = 3
    /\ script[1].op = "GetChallenge"
    /\ Encoding(script[2]) # <<>>
    /\ script[3].op = "GetChallenge"
    /\ Len(chalB) = 2
    /\ chalB[1] # chalB[2]

---------------------------------------------------------------------------
(* Properties of the argument *)

\* Whether VerifyWNLA has returned for the prover's proof and commitment.
HonestDone == vpc = "done" /\ vin.proof = proof /\ vin.Com = com

\* C1, as claimed: for every public with nonzero Mu and Ro and every witness
\* of matching lengths, VerifyWNLA accepts the proof of ProveWNLA for
\* CommitWNLA(P, l, n), both with a fresh transcript.
C1_Completeness ==
    (HonestDone /\ pub.Mu # 0 /\ pub.Ro # 0) => vres = NoErr

\* Whether witness lengths h and g are halved evenly by every fold down to
\* the base case, so that both halves of a fold have one length.
RECURSIVE EvenFolds(_, _)
EvenFolds(h, g) ==
    \/ h + g < 6
    \/ h % 2 = 0 /\ g % 2 = 0 /\ EvenFolds(h \div 2, g \div 2)

\* C1, amended: for every public with Ro # 0 and Mu = Ro^2 and every witness
\* of matching lengths that every fold halves evenly, VerifyWNLA accepts the
\* proof of ProveWNLA for CommitWNLA(P, l, n), both with a fresh transcript.
C1_CompletenessMuRo2 ==
    (/\ HonestDone
     /\ pub.Ro # 0 /\ pub.Mu = mul(pub.Ro, pub.Ro)
     /\ EvenFolds(Len(wl), Len(wn))) => vres = NoErr

\* C1: a proof of two rounds for a nonzero witness was accepted.
C1_Witness ==
    /\ HonestDone
    /\ pub.Mu = mul(pub.Ro, pub.Ro)
    /\ Len(proof.X) = 2
    /\ Len(vrounds) = 2
    /\ \E i \in 1 .. Len(wn) : wn[i] # 0
    /\ vres = NoErr

\* C4: for a proof with X and R empty, VerifyWNLA returns nil exactly when
\* CommitWNLA(P, proof.L, proof.N) is Com, the final-commitment-mismatch
\* error otherwise, and absorbs nothing.
C4_BaseCase ==
    (vpc = "done" /\ vin.proof.X = <<>> /\ vin.proof.R = <<>>) =>
        /\ vres = NoErr <=> CommitWNLA(pub, vin.proof.L, vin.proof.N) = vin.Com
        /\ vres # NoErr => vres = "failed to verify proof: final commitment mismatch"
        /\ vfs = NewKeccakFS

\* C4: an unfolded witness was rejected for another commitment than its own.
C4_Witness ==
    /\ vpc = "done"
    /\ vin.proof.X = <<>> /\ vin.proof.R = <<>>
    /\ Len(vin.proof.L) + Len(vin.proof.N) >= 6
    /\ vin.Com # com
    /\ vres = "failed to verify proof: final commitment mismatch"

\* C11: VerifyWNLA returns the length error for every proof whose X and R
\* have different lengths, with its transcript as the caller passed it and
\* no round performed (so before any absorption and any commitment check).
C11_LengthMismatch ==
    (vpc = "done" /\ Len(vin.proof.X) # Len(vin.proof.R)) =>
        /\ vres = "invalid length for R and X vectors: should be equal"
        /\ vfs = vctx
        /\ vrounds = <<>>

\* C11: a proof of at least one round with one R too many was rejected.
C11_Witness ==
    /\ vpc = "done"
    /\ Len(vin.proof.X) >= 1
    /\ Len(vin.proof.R) > Len(vin.proof.X)
    /\ vres = "invalid length for R and X vectors: should be equal"

\* The number of rounds proveWNLARecursive performs for a witness of lengths
\* h and g: each round keeps the elements at the even indices, until fewer
\* than six scalars are left.
RECURSIVE Folds(_, _)
Folds(h, g) ==
    IF h + g < 6 THEN 0 ELSE 1 + Folds((h + 1) \div 2, (g + 1) \div 2)

\* C12, as claimed: VerifyWNLA returns an error for every proof with as many
\* X as R whose number of rounds differs from the number of folds the prover
\* performs for |HVec| and |GVec|.
C12_RoundsChecked ==
    (/\ vpc = "done"
     /\ Len(vin.proof.X) = Len(vin.proof.R)
     /\ Len(vin.proof.X) # Folds(Len(pub.HVec), Len(pub.GVec))) => vres # NoErr

\* C13, as claimed: when the same calls were made on the prover's and on the
\* verifier's transcript before, so that the two are equal at entry,
\* VerifyWNLA accepts the proof of ProveWNLA for CommitWNLA(P, l, n).
C13_CompletenessWithContext ==
    (HonestDone /\ ctx = vctx) => vres = NoErr

\* C13, amended: when the same calls were made on the prover's and on the
\* verifier's transcript before, so that the two are equal at entry,
\* VerifyWNLA accepts the proof of ProveWNLA for CommitWNLA(P, l, n), for
\* every public with Ro # 0 and Mu = Ro^2 and every witness of matching
\* lengths that every fold halves evenly.
C13_CompletenessWithContextMuRo2 ==
    (/\ HonestDone
     /\ ctx = vctx
     /\ pub.Ro # 0 /\ pub.Mu = mul(pub.Ro, pub.Ro)
     /\ EvenFolds(Len(wl), Len(wn))) => vres = NoErr

\* C13: a proof of two rounds was accepted, made and verified on transcripts
\* that had absorbed and squeezed before.
C13_Witness ==
    /\ HonestDone
    /\ ctx = vctx
    /\ ctx.counter >= 1
    /\ Len(ctx.state) > 64
    /\ Len(proof.X) = 2
    /\ Len(vrounds) = 2
    /\ vres = NoErr

\* A step changes no object that exists, but for a point whose coordinates
\* are normalised, its value staying what it was, and for the transcript of
\* the call that takes the step; and no object goes away.
SharedStep ==
    \A o \in Owners :
        /\ Len(heap'[o]) >= Len(heap[o])
        /\ \A k \in 1 .. Len(heap[o]) :
             LET c == heap[o][k]
                 d == heap'[o][k]
             IN  \/ d = c
                 \/ "pt" \in DOMAIN c /\ "pt" \in DOMAIN d /\ d.pt = c.pt
                 \/ /\ "state" \in DOMAIN c /\ "state" \in DOMAIN d
                    /\ \E i \in 1 .. 3 :
                         /\ calls[i].pc # "idle"
                         /\ calls[i].args.fs = <<o, k>>
                         /\ \A j \in (1 .. 3) \ {i} : calls'[j] = calls[j]

\* What each call was given holds the values it held at the call.
SharedInputsHold ==
    LET m == CallerMade
    IN  /\ PublicAt(heap, m.public) = pub
        /\ \A i \in {1, 2} :
             /\ Ints(heap, m.l[i]) = wl
             /\ Ints(heap, m.n[i]) = wn
             /\ At(heap, m.Com[i]).pt = com
        /\ calls[3].pc # "idle" =>
             ProofAt(heap, calls[3].args.proof) = calls[3].given

\* What each call returned is what the call returns when it is run alone.
SharedResults ==
    LET alone == proveWNLARecursive(pub, com, NewKeccakFS, wl, wn)
    IN  /\ \A i \in {1, 2} :
             calls[i].pc \in {"done", "failed"} =>
               /\ alone.known
               /\ alone.failed = (calls[i].pc = "failed")
               /\ calls[i].pc = "done" =>
                    /\ ProofAt(heap, calls[i].proof) = alone.proof
                    /\ At(heap, calls[i].args.fs) = alone.fs
        /\ calls[3].pc = "done" =>
             LET v == VerifyWNLA(pub, calls[3].given, com, NewKeccakFS)
             IN  /\ v.known
                 /\ calls[3].given = alone.proof
                 /\ calls[3].res = v.err
                 /\ At(heap, calls[3].args.fs) = v.fs

\* The calls that run at the same time: the call of VerifyWNLA is made after
\* the first call of ProveWNLA has returned.
Concurrent == {<<1, 2>>, <<2, 1>>, <<2, 3>>, <<3, 2>>}

\* No call writes an object that a call running at the same time reads or
\* writes.
RaceFree ==
    \A c \in Concurrent :
        calls[c[1]].wr \cap (calls[c[2]].rd \cup calls[c[2]].wr) = {}

\* C14: every step of ProveWNLA and of VerifyWNLA leaves every object it did
\* not make itself at its value, the transcript of its own call excepted, so
\* that the public, the witnesses, the commitments and, in VerifyWNLA, the
\* proof hold the values they held at the call; no call writes what a call
\* running at the same time reads or writes; and each of two calls of
\* ProveWNLA that share one public and have transcripts of their own, and
\* the call of VerifyWNLA, returns what it returns when run alone, however
\* their steps interleave.
C14_InputsUnchanged ==
    /\ [][SharedStep]_vars
    /\ [](SharedInputsHold /\ SharedResults /\ RaceFree)

\* C14: the call of VerifyWNLA has accepted the two-round proof of the first
\* call of ProveWNLA, having marshalled its commitment, while the second call
\* of ProveWNLA, on the same public, is in its second round.
C14_Witness ==
    /\ calls # <<>>
    /\ calls[1].pc = "done"
    /\ At(heap, calls[1].proof).X.len = 2
    /\ calls[3].pc = "done" /\ calls[3].res = NoErr
    /\ At(heap, calls[3].args.Com).affine
    /\ calls[2].pc = "reduce" /\ Len(calls[2].stack) = 1
    /\ calls[2].public # calls[2].args.public
    /\ At(heap, calls[2].public).Ro = At(heap, calls[2].args.public).Mu
    /\ PublicAt(heap, calls[2].args.public) = pub

\* The integer logarithms of s >= 1 to the base 2, rounded down and up.
RECURSIVE Log2Floor(_)
Log2Floor(s) == IF s < 2 THEN 0 ELSE 1 + Log2Floor(s \div 2)

Log2Ceil(s) == IF 2 ^ Log2Floor(s) = s THEN Log2Floor(s) ELSE Log2Floor(s) + 1

\* C16, as claimed: the proof ProveWNLA returns carries log2(|l|+|n|) pairs
\* (X_i, R_i), the logarithm rounded either way.
C16_RoundsLog2 ==
    (ppc = "done" /\ Len(wl) + Len(wn) >= 1) =>
        Len(proof.X) \in {Log2Floor(Len(wl) + Len(wn)), Log2Ceil(Len(wl) + Len(wn))}

\* C16, amended: ProveWNLA folds while |l|+|n| >= 6, so for lengths that
\* every fold halves evenly the proof carries k pairs (X_i, R_i), k the
\* least number with (|l|+|n|) / 2^k < 6, and then the final L and N, of
\* lengths |l| / 2^k and |n| / 2^k.
C16_RoundsUntilBelowSix ==
    (ppc = "done" /\ EvenFolds(Len(wl), Len(wn))) =>
        LET k == Len(proof.X)
            s == Len(wl) + Len(wn)
        IN  /\ Len(proof.R) = k
            /\ s < 6 * 2 ^ k
            /\ k > 0 => s >= 6 * 2 ^ (k - 1)
            /\ Len(proof.L) * 2 ^ k = Len(wl)
            /\ Len(proof.N) * 2 ^ k = Len(wn)

\* C16: a witness of twelve scalars was folded twice, down to three.
C16_Witness ==
    /\ ppc = "done"
    /\ Len(wl) + Len(wn) = 12
    /\ Len(proof.X) = 2 /\ Len(proof.R) = 2
    /\ Len(proof.L) = 2 /\ Len(proof.N) = 1

\* Whether VerifyWNLA was called with the prover's proof and commitment.
HonestRun == ppc = "done" /\ vpc # "idle" /\ vin.proof = proof /\ vin.Com = com

\* C18, as claimed: in every round of an honest run the commitment the
\* prover recomputes as CommitWNLA(P', l', n') is the commitment the verifier
\* derives as Com + y*X + (y^2 - 1)*R, whatever the challenges.
C18_CommitmentsAgree ==
    HonestRun =>
        \A i \in 1 .. Len(vrounds) : vrounds[i].next = prounds[i].next

\* C18, amended: the same for every public with Ro # 0 and Mu = Ro^2 and
\* every witness that every fold halves evenly.
C18_CommitmentsAgreeMuRo2 ==
    (/\ HonestRun
     /\ pub.Ro # 0 /\ pub.Mu = mul(pub.Ro, pub.Ro)
     /\ EvenFolds(Len(wl), Len(wn))) =>
        \A i \in 1 .. Len(vrounds) : vrounds[i].next = prounds[i].next

\* C18: the two commitments agreed in both rounds of a run with Ro # 1,
\* nonzero challenges and an X and an R other than the identity.
C18_Witness ==
    /\ HonestRun
    /\ pub.Ro > 1 /\ pub.Mu = mul(pub.Ro, pub.Ro)
    /\ Len(vrounds) = 2
    /\ \A i \in 1 .. 2 : vrounds[i].y # 0 /\ vrounds[i].next = prounds[i].next
    /\ vrounds[1].X # 0 /\ vrounds[1].R # 0

\* The public of round i of the prover: the caller's, or the one reduced in
\* the round before.
PublicOfRound(i) == IF i = 1 THEN pub ELSE prounds[i - 1].public

\* The bytes hashed at the squeeze of round i: those of the round before,
\* then the commitment, X, R, |HVec|, |GVec| and the counter.
RoundBytes(i) ==
    (IF i = 1 THEN <<>> ELSE prounds[i - 1].c.modOrder.keccak256)
    \o Marshal(prounds[i].Com) \o Marshal(prounds[i].X) \o Marshal(prounds[i].R)
    \o Enc32(Len(PublicOfRound(i).HVec)) \o Enc32(Len(PublicOfRound(i).GVec))
    \o Enc32(i)

\* Whether prover and verifier were in lockstep in round i.
Lockstep(i) ==
    /\ vrounds[i].Com = prounds[i].Com
    /\ vrounds[i].X = prounds[i].X
    /\ vrounds[i].R = prounds[i].R
    /\ prounds[i].c = ChallengeOf(Keccak256(RoundBytes(i)))
    /\ vrounds[i].c = prounds[i].c
    /\ vrounds[i].y = prounds[i].y
    /\ vrounds[i].public = prounds[i].public

\* C19, as claimed: in every round of an honest run prover and verifier
\* absorb the same commitment, X, R, |HVec| and |GVec|, in that order, and
\* squeeze once, so that they hash the same bytes and get the same challenge
\* and the same reduced public.
C19_Lockstep ==
    HonestRun => \A i \in 1 .. Len(vrounds) : Lockstep(i)

\* C19, amended: the same for every public with Ro # 0 and Mu = Ro^2 and
\* every witness that every fold halves evenly.
C19_LockstepMuRo2 ==
    (/\ HonestRun
     /\ pub.Ro # 0 /\ pub.Mu = mul(pub.Ro, pub.Ro)
     /\ EvenFolds(Len(wl), Len(wn))) =>
        /\ \A i \in 1 .. Len(vrounds) : Lockstep(i)
        /\ vpc = "done" => vfs = pfs

\* C19: prover and verifier were in lockstep in the second round, with an X
\* other than R, and hold equal transcripts at the end.
C19_Witness ==
    /\ HonestRun /\ vpc = "done"
    /\ pub.Mu = mul(pub.Ro, pub.Ro)
    /\ Len(vrounds) = 2
    /\ Lockstep(2)
    /\ vrounds[2].X # vrounds[2].R
    /\ vfs = pfs /\ vfs.counter = 2

\* The public of round i of the verifier.
VPublicOfRound(i) == IF i = 1 THEN pub ELSE vrounds[i - 1].public

\* Whether the public next is the public prev after a round, as to G, Ro
\* and Mu.
FoldedConstants(prev, next) ==
    /\ next.G = prev.G
    /\ next.Ro = prev.Mu
    /\ next.Mu = mul(prev.Mu, prev.Mu)

\* C20: each round replaces Ro by the Mu before and Mu by its square and
\* keeps G, in the prover and in the verifier; and when Mu and Ro are not
\* zero at the call, Ro is not zero in any round, so that no call fails at
\* inv(Ro) and inv(Ro) is the inverse of Ro.
C20_FoldingConstants ==
    /\ \A i \in 1 .. Len(prounds) :
          FoldedConstants(PublicOfRound(i), prounds[i].public)
    /\ \A i \in 1 .. Len(vrounds) :
          FoldedConstants(VPublicOfRound(i), vrounds[i].public)
    /\ (pub.Mu # 0 /\ pub.Ro # 0) =>
          /\ ppc # "failed"
          /\ pPub.Ro # 0 /\ pPub.Mu # 0
          /\ \A i \in 1 .. Len(prounds) :
                /\ PublicOfRound(i).Ro # 0
                /\ mul(PublicOfRound(i).Ro, inv(PublicOfRound(i).Ro)) = 1

\* C20: two rounds were made by the prover and by the verifier for a public
\* with Mu and Ro not zero and different.
C20_Witness ==
    /\ ppc = "done" /\ vpc = "done"
    /\ pub.Mu # 0 /\ pub.Ro # 0 /\ pub.Mu # pub.Ro
    /\ Len(prounds) = 2 /\ Len(vrounds) = 2
    /\ prounds[2].public.Ro = mul(pub.Mu, pub.Mu)
    /\ vrounds[2].public.Ro = mul(pub.Mu, pub.Mu)

\* Whether the halves of v that a round combines have one length.
EqualHalves(v) == Len(reduceVector(v).res0) = Len(reduceVector(v).res1)

\* C21: for a witness with |l| = |HVec| = |C| and |n| = |GVec| whose folded
\* lengths are all even, the arguments of every recursive call satisfy the
\* same equalities, each round has halved the five lengths, and the halves
\* a round is about to combine have equal lengths.
C21_LengthInvariant ==
    (/\ Len(wl) = Len(pub.HVec) /\ Len(wl) = Len(pub.C)
     /\ Len(wn) = Len(pub.GVec)
     /\ EvenFolds(Len(wl), Len(wn))) =>
        /\ Len(pl) = Len(pPub.HVec) /\ Len(pl) = Len(pPub.C)
        /\ Len(pn) = Len(pPub.GVec)
        /\ Len(pl) * 2 ^ Len(prounds) = Len(wl)
        /\ Len(pn) * 2 ^ Len(prounds) = Len(wn)
        /\ (ppc = "call" /\ Len(pl) + Len(pn) >= 6) =>
              /\ EqualHalves(pl) /\ EqualHalves(pn)
              /\ EqualHalves(pPub.C)
              /\ Len(reducePoints(pPub.HVec).res0) = Len(reducePoints(pPub.HVec).res1)
              /\ Len(reducePoints(pPub.GVec).res0) = Len(reducePoints(pPub.GVec).res1)

\* C21: eight and four scalars were folded twice, to two and one.
C21_Witness ==
    /\ ppc = "done"
    /\ Len(wl) = 8 /\ Len(wn) = 4
    /\ Len(prounds) = 2
    /\ Len(pl) = 2 /\ Len(pPub.HVec) = 2 /\ Len(pPub.C) = 2
    /\ Len(pn) = 1 /\ Len(pPub.GVec) = 1

\* |l| + |n| at the call of round i of the prover.
WitnessSize(i) ==
    IF i = 1 THEN Len(wl) + Len(wn)
    ELSE Len(prounds[i - 1].l) + Len(prounds[i - 1].n)

\* C22: each round of the prover makes |l| + |n| smaller; the proof it
\* returns ends in vectors with |L| + |N| < 6; a witness with |l| + |n| < 6
\* is returned in clear, with no round and the transcript as it was; and
\* for a witness whose folds are even the call ends, and it returns when Mu
\* and Ro are not zero.
C22_ProverTerminates ==
    /\ [](/\ \A i \in 1 .. Len(prounds) :
               Len(prounds[i].l) + Len(prounds[i].n) < WitnessSize(i)
          /\ ppc = "done" =>
               /\ Len(proof.L) + Len(proof.N) < 6
               /\ Len(wl) + Len(wn) < 6 =>
                     /\ proof = ClearProof(wl, wn)
                     /\ prounds = <<>>
                     /\ pfs = ctx)
    /\ EvenFolds(Len(wl), Len(wn)) => <>(~ProverRuns)
    /\ (/\ pub.Mu # 0 /\ pub.Ro # 0
        /\ EvenFolds(Len(wl), Len(wn))) => <>(ppc = "done")

\* C22: the prover returned after two rounds, from twelve scalars to three.
C22_Witness ==
    /\ ppc = "done"
    /\ Len(wl) + Len(wn) = 12
    /\ Len(prounds) = 2
    /\ Len(proof.L) + Len(proof.N) = 3
    /\ pfs.counter = 2

\* C23: a proof returned by ProveWNLA has as many X and as many R as rounds
\* were made, X[i] and R[i] being those of round i, the first round first;
\* and round i of VerifyWNLA takes X[i] and R[i] of the proof it was given.
C23_ProofShape ==
    /\ ppc = "done" =>
          /\ Len(proof.X) = Len(prounds)
          /\ Len(proof.R) = Len(prounds)
          /\ \A i \in 1 .. Len(prounds) :
                proof.X[i] = prounds[i].X /\ proof.R[i] = prounds[i].R
    /\ vpc \in {"call", "done"} =>
          /\ Len(vrounds) <= Len(vin.proof.X)
          /\ \A i \in 1 .. Len(vrounds) :
                vrounds[i].X = vin.proof.X[i] /\ vrounds[i].R = vin.proof.R[i]

\* C23: a proof of two rounds with different X was returned, and the
\* verifier made its two rounds on it.
C23_Witness ==
    /\ ppc = "done" /\ Len(prounds) = 2
    /\ proof.X[1] # proof.X[2]
    /\ proof.R[1] # proof.R[2]
    /\ vpc = "done" /\ vin.proof = proof /\ Len(vrounds) = 2

\* The bytes a round of VerifyWNLA adds to its transcript: three points, two
\* numbers and the counter of the squeeze.
RoundLength == 3 * 64 + 2 * 32 + 32

\* C25: called with a proof of k X and k R, VerifyWNLA makes exactly k
\* rounds, each of five absorptions and a squeeze, then the base-case check
\* on the public and commitment of the last round, whatever the sizes of the
\* public; a proof of no round with the whole witness is accepted when
\* CommitWNLA(P, L, N) is Com; and the call ends.
C25_DrivenByProof ==
    /\ []((vpc \in {"call", "done"} /\ Len(vin.proof.X) = Len(vin.proof.R)) =>
            /\ Len(vrounds) + Len(vProof.X) = Len(vin.proof.X)
            /\ vfs.counter = vctx.counter + Len(vrounds)
            /\ Len(vfs.state) = Len(vctx.state) + RoundLength * Len(vrounds)
            /\ vpc = "done" =>
                  /\ Len(vrounds) = Len(vin.proof.X)
                  /\ vres = VerifyWNLA_Base(vPub, vin.proof, vCom)
                  /\ vin.proof.X = <<>> =>
                        (vres = NoErr <=>
                           CommitWNLA(pub, vin.proof.L, vin.proof.N) = vin.Com))
    /\ (vpc = "call") ~> (vpc = "done")

\* C25: a proof of no round with a witness of twelve scalars was accepted
\* where the prover made two rounds.
C25_Witness ==
    /\ vpc = "done" /\ vres = NoErr
    /\ vin.proof.X = <<>> /\ vin.proof.R = <<>>
    /\ Len(vin.proof.L) + Len(vin.proof.N) = 12
    /\ Len(prounds) = 2
    /\ vrounds = <<>> /\ vfs = vctx

\* The number a byte string is, read big-endian.
RECURSIVE BigEndian(_)
BigEndian(b) ==
    IF b = <<>> THEN 0
    ELSE BigEndian(SubSeq(b, 1, Len(b) - 1)) * 256 + b[Len(b)]

\* A byte string without its leading zero bytes.
RECURSIVE Strip(_)
Strip(b) == IF b # <<>> /\ b[1] = 0 THEN Strip(Tail(b)) ELSE b

\* The bytes of scalars below bn256.Order of 31 and 32 bytes.
LongScalarBytes ==
    {<<1>> \o Zeros(30), <<255>> \o Zeros(29) \o <<7>>,
     <<1>> \o Zeros(31), <<47>> \o [i \in 1 .. 31 |-> 255]}

\* The bytes the i-th call of the script added to transcript A, when every
\* call added 32.
Absorbed32(i) == SubSeq(fsA.state, 32 * (i - 1) + 1, 32 * i)

\* C24: every AddNumber of a scalar absorbs exactly 32 bytes, which read
\* big-endian are the scalar; with any other scalar the transcript would be
\* another; and a scalar of 31 or 32 bytes is encoded in 32 bytes of the
\* same big-endian value.
C24_ScalarEncoding ==
    /\ Len(fsA.state) = 32 * Len(script)
    /\ Len(fsA.state) = 32 * Len(script) =>
          \A i \in 1 .. Len(script) :
              /\ BigEndian(Absorbed32(i)) = script[i].num
              /\ Absorbed32(i) = scalarTo32Byte(script[i].num)
    /\ script # <<>> =>
          \A v \in ScalarInputs \ {script[Len(script)].num} :
              AddNumber(preA, FALSE, v).k # fsA
    /\ \A arr \in LongScalarBytes :
          /\ Len(scalarTo32Byte_arr(arr)) = 32
          /\ Strip(scalarTo32Byte_arr(arr)) = arr

\* C24: two scalars were absorbed, the last of them of four bytes.
C24_Witness ==
    /\ Len(script) = 2
    /\ script[1].num = 1
    /\ script[2].num = 16909060
    /\ Absorbed32(2) = Zeros(28) \o <<1, 2, 3, 4>>

\* The sequences of at most two of the absorbing calls.
OtherScripts ==
    {<<>>} \cup {<<e>> : e \in ConcatCalls}
           \cup {<<e, f>> : e \in ConcatCalls, f \in ConcatCalls}

\* C26: the state of a transcript is the bytes its absorbing calls wrote,
\* one after the other and nothing else: any other sequence of absorbing
\* calls that writes the same bytes leaves a new transcript in the same
\* state, and the next challenge is the same.
C26_PlainConcatenation ==
    /\ fsA.state = SpongeInput(script, Len(script))
    /\ \A t \in OtherScripts :
          SpongeInput(t, Len(t)) = SpongeInput(script, Len(script)) =>
              /\ After(NewKeccakFS, t) = fsA
              /\ GetChallenge(After(NewKeccakFS, t)).c = GetChallenge(fsA).c

\* C26: AddBytes(a) and AddBytes(b) were called, and the transcript is in
\* the state AddBytes(a || b) and AddDomain(a) leave.
C26_Witness ==
    /\ script = <<Call("AddBytes", FALSE, 0, <<65>>, 0),
                  Call("AddBytes", FALSE, 0, <<0>>, 0)>>
    /\ fsA = AddBytes(NewKeccakFS, FALSE, <<65, 0>>).k
    /\ fsA = AddDomain(NewKeccakFS, <<65>>).k

---------------------------------------------------------------------------
(* Properties of the random scalars *)

\* C17: hashToScalarWithRejection tries at most maxAttempts candidates; it
\* returns a candidate only if it is below the order and every candidate
\* before it was rejected; and when maxAttempts candidates were rejected it
\* returns the error and no value.
C17_BoundedRejection ==
    /\ rs.attempt <= maxAttempts
    /\ rs.rejected <= maxAttempts
    /\ (rs.pc = "done" /\ rs.err = NoErr) =>
          /\ rs.value = rs.candidate
          /\ rs.value < Order
          /\ rs.rejected = rs.attempt
          /\ rs.attempt < maxAttempts
    /\ (rs.pc = "done" /\ rs.rejected = maxAttempts) =>
          /\ rs.err = "rejection sampling failed after 100 attempts"
          /\ rs.value = "nil"
    /\ rs.err = "rejection sampling failed after 100 attempts" =>
          rs.rejected = maxAttempts

\* C17: the hundredth candidate was rejected and the error returned.
C17_Witness ==
    /\ rs.pc = "done"
    /\ rs.rejected = maxAttempts
    /\ rs.candidate >= Order
    /\ rs.err = "rejection sampling failed after 100 attempts"

=============================================================================
